---- MODULE Spec2Model ----
(***************************************************************************)
(* A model of the parvati ORM: the key-value deserializer                  *)
(* (lib/src/deserializer_key_values.rs), the row reconstruction protocol   *)
(* and the query runners of the SQLite backend (lib/src/sqlite.rs), the    *)
(* calls of the MySQL backend (lib/src/mysql.rs), and the Row container    *)
(* (lib/src/lib.rs).                                                       *)
(*                                                                         *)
(* Text is a sequence of one-character strings, so that cursors, slices    *)
(* and replacements are computed character by character as the code does.  *)
(***************************************************************************)
EXTENDS Integers, Sequences, FiniteSets, TLC

VARIABLES
    overflow_checks,  \* build profile: TRUE = debug (arithmetic overflow panics), FALSE = release (wraps)
    call,             \* the decode call last made: its operation and its arguments
    de,               \* outcome of the inner parse: value or error, and Deserializer.input afterwards
    rv,               \* what the call returned to its caller
    backend,          \* the type of the ORM instance: "sqlite" (sqlite.rs ORM) or "mysql" (mysql.rs ORM)
    conn,             \* ORM.conn: TRUE while the Mutex holds Some(Connection)
    table,            \* rows of table `user` in the database, in rowid order
    seq,              \* AUTOINCREMENT sequence of table `user`: largest rowid ever used
    rowid,            \* the connection's last_insert_rowid
    ret,              \* the ORM call last made, with its arguments and its result
    returned,         \* ids of the records add(..).apply() has returned
    removed,          \* ids deleted through remove(..).run() and not inserted again
    change_count,     \* ORM.change_count: change() calls counted by this ORM instance
    last_change,      \* table ormlib_last_change of the database: whether it exists, and its `last` values
    calls,            \* change() calls the caller has made on this ORM instance: the next one passes q[calls + 1]
    applied,          \* per update query of the sequence, how many times the database has executed it
    conn_lock,        \* the Mutex around ORM.conn: 0 when free, else the caller holding the guard
    pc,               \* per concurrent caller, where it stands in its call
    job,              \* per concurrent caller, the call it is making and what it has got so far
    count_lock,       \* the Mutex around ORM.change_count: 0 when free, else the caller holding the guard
    change_calls,     \* per concurrent caller, how many change() calls of the sequence it has made
    row_columns,      \* Row.columns of a Row under a sequence of set and get calls
    stored,           \* per column index of that Row, the value most recently passed to set
    got               \* the get call last made on that Row, and its result

vars == <<overflow_checks, call, de, rv, backend, conn, table, seq, rowid, ret, returned, removed,
          change_count, last_change, calls, applied, conn_lock, pc, job, count_lock, change_calls,
          row_columns, stored, got>>
deVars == <<call, de, rv>>
changeVars == <<change_count, last_change, calls, applied>>
countVars == <<count_lock, change_calls>>
concVars == <<conn_lock, pc, job, countVars>>
rowVars == <<row_columns, stored, got>>
ormVars == <<conn, table, seq, rowid, ret, returned, removed, changeVars, concVars>>

----------------------------------------------------------------------------
(* Bounds of the model *)

\* longest string value enumerated for a text field
MaxLen == 3
\* longest digit run enumerated for an integer literal
MaxDigits == 3
\* largest number of rows ever inserted into the table
MaxRows == 2
\* length of the sequence of update queries q[1], q[2], ... passed to change()
MaxChanges == 2
\* rows inserted while the life cycle of the connection is explored
MaxLifeRows == 1
\* number of concurrent callers sharing one ORM
NumCallers == 2
\* executions of one update query after which no further change is called
MaxApplied == 2
\* rows inserted by the concurrent callers
MaxConcRows == 2
\* largest column index of a Row that set and get are called with
MaxIndex == 1
\* most rows a find-by-id select retrieves
MaxFound == 2
\* columns of a MySQL result set
MaxColumns == 2
\* rows of a MySQL result set
MaxMysqlRows == 2

----------------------------------------------------------------------------
(* Characters and text *)

Q == "\""
BS == "\\"

Digits == <<"0", "1", "2", "3", "4", "5", "6", "7", "8", "9">>
Lower == <<"a", "b", "c", "d", "e", "f", "g", "h", "i", "j", "k", "l", "m",
           "n", "o", "p", "q", "r", "s", "t", "u", "v", "w", "x", "y", "z">>

Range(s) == {s[i] : i \in DOMAIN s}
IndexOf(s, ch) == CHOOSE i \in DOMAIN s : s[i] = ch

\* the printable ASCII characters in the order of their codes, from 32 on,
\* without the grave accent (96), which a string of this notation cannot hold
Ascii ==
    <<" ", "!", "\"", "#", "$", "%", "&", "'", "(", ")", "*", "+", ",", "-", ".", "/",
      "0", "1", "2", "3", "4", "5", "6", "7", "8", "9", ":", ";", "<", "=", ">", "?",
      "@", "A", "B", "C", "D", "E", "F", "G", "H", "I", "J", "K", "L", "M", "N", "O",
      "P", "Q", "R", "S", "T", "U", "V", "W", "X", "Y", "Z", "[", "\\", "]", "^", "_",
      "a", "b", "c", "d", "e", "f", "g", "h", "i", "j", "k", "l", "m", "n", "o",
      "p", "q", "r", "s", "t", "u", "v", "w", "x", "y", "z", "{", "|", "}", "~">>

\* char::len_utf8: the number of bytes a character takes in a str
len_utf8(ch) ==
    CASE ch = "é" -> 2
      [] ch = "€" -> 3
      [] OTHER -> 1

\* `ch as u8`: the character's own byte, for the ASCII characters, and the
\* low byte of the code point for the others (U+00E9, U+20AC)
CharCode(ch) ==
    CASE ch = "\t" -> 9
      [] ch = "\n" -> 10
      [] ch = "\r" -> 13
      [] ch = "é" -> 233
      [] ch = "€" -> 172
      [] OTHER -> IF IndexOf(Ascii, ch) <= 64 THEN 31 + IndexOf(Ascii, ch)
                  ELSE 32 + IndexOf(Ascii, ch)

\* &s[from..] and &s[..to]. A text is the sequence of its characters and the
\* zero-based index counts characters; the code's index counts bytes and
\* comes from a search that counts bytes, so both name the same place
\* wherever the code's index is the start of a character. The one index of
\* the code that need not be is end_idx + 1 of parse_string.
SliceFrom(s, from) == SubSeq(s, from + 1, Len(s))
SliceTo(s, to) == SubSeq(s, 1, to)

\* str::starts_with
starts_with(s, pat) == Len(s) >= Len(pat) /\ SubSeq(s, 1, Len(pat)) = pat

RECURSIVE replace(_, _, _)
\* str::replace: every non-overlapping match of `from`, left to right
replace(s, from, to) ==
    IF Len(s) < Len(from) THEN s
    ELSE IF SubSeq(s, 1, Len(from)) = from
         THEN to \o replace(SliceFrom(s, Len(from)), from, to)
         ELSE <<Head(s)>> \o replace(Tail(s), from, to)

RECURSIVE find(_, _, _)
\* str::find(ch): zero-based index of the first ch at or after index i, or -1 for None
find(s, ch, i) ==
    IF i >= Len(s) THEN -1
    ELSE IF s[i + 1] = ch THEN i
    ELSE find(s, ch, i + 1)

RECURSIVE join(_, _)
\* Vec<String>::join(sep)
join(parts, sep) ==
    IF Len(parts) = 0 THEN <<>>
    ELSE IF Len(parts) = 1 THEN parts[1]
    ELSE parts[1] \o sep \o join(Tail(parts), sep)

----------------------------------------------------------------------------
(* Results: Ok(value) or Err(kind), with the cursor the call leaves *)

R_Ok(v, rest) == [ok |-> TRUE, val |-> v, input |-> rest]
R_Err(e, rest) == [ok |-> FALSE, err |-> e, input |-> rest]
\* a panic unwinds the call: no value is returned
Panic == "Panic"

Some(v) == [some |-> TRUE, v |-> v]
None == [some |-> FALSE]

----------------------------------------------------------------------------
(* Deserializer: the parsing functions *)

peek_char(input) ==
    IF input = <<>> THEN R_Err("Eof", input) ELSE R_Ok(Head(input), input)

\* a variant that drops the last character of the input instead of the first
next_char_drops_last(input) ==
    IF input = <<>> THEN R_Err("Eof", input)
    ELSE R_Ok(Head(input), SubSeq(input, 1, Len(input) - 1))

next_char(input) ==
    IF input = <<>> THEN R_Err("Eof", input) ELSE R_Ok(Head(input), Tail(input))

\* a variant that leaves a failed literal's first character consumed
parse_bool_consuming(input) ==
    IF starts_with(input, <<"t", "r", "u", "e">>)
    THEN R_Ok(TRUE, SliceFrom(input, 4))
    ELSE IF starts_with(input, <<"f", "a", "l", "s", "e">>)
    THEN R_Ok(FALSE, SliceFrom(input, 5))
    ELSE R_Err("ExpectedBoolean", IF input = <<>> THEN input ELSE Tail(input))

parse_bool(input) ==
    IF starts_with(input, <<"t", "r", "u", "e">>)
    THEN R_Ok(TRUE, SliceFrom(input, 4))
    ELSE IF starts_with(input, <<"f", "a", "l", "s", "e">>)
    THEN R_Ok(FALSE, SliceFrom(input, 5))
    ELSE R_Err("ExpectedBoolean", input)

\* an arithmetic step on an unsigned integer of w bits: panics on overflow
\* when the build checks it, wraps otherwise. A result below 2^31 fits the
\* widths from 31 bits on, which is decided before 2^w is computed.
StepU(x, w, checks) ==
    IF 0 <= x /\ ((w >= 31 /\ x <= 2147483647) \/ x < 2 ^ w) THEN [ok |-> TRUE, n |-> x]
    ELSE IF checks THEN [ok |-> FALSE]
    ELSE [ok |-> TRUE, n |-> x % (2 ^ w)]

\* the same step on a signed integer of w bits. A result within
\* -2^31 .. 2^31 - 1 fits the widths from 32 bits on, which is decided
\* before 2^(w-1) is computed.
StepS(x, w, checks) ==
    IF (w >= 32 /\ -2147483647 - 1 <= x /\ x <= 2147483647)
       \/ (-(2 ^ (w - 1)) <= x /\ x < 2 ^ (w - 1))
    THEN [ok |-> TRUE, n |-> x]
    ELSE IF checks THEN [ok |-> FALSE]
    ELSE [ok |-> TRUE, n |-> ((x + 2 ^ (w - 1)) % (2 ^ w)) - 2 ^ (w - 1)]

\* a * 10 wrapped to 32 bits, computed on the two 16-bit halves of a
Mul10Wrapped(a) ==
    LET with_hi10(lo10, hi10) ==
            (((hi10 + 32768) % 65536) - 32768) * 65536 + (lo10 % 65536)
        with_lo10(lo10) == with_hi10(lo10, (a \div 65536) * 10 + (lo10 \div 65536))
    IN  with_lo10((a % 65536) * 10)

\* `int *= T::from(b)` on a signed integer of w bits, b being 10 or the
\* sign. At 32 bits the overflow is decided before the product is computed.
MulS(a, b, w, checks) ==
    IF w # 32 \/ b \notin {10, -1} THEN StepS(a * b, w, checks)
    ELSE IF b = 10
    THEN IF -214748364 <= a /\ a <= 214748364 THEN [ok |-> TRUE, n |-> a * 10]
         ELSE IF checks THEN [ok |-> FALSE]
         ELSE [ok |-> TRUE, n |-> Mul10Wrapped(a)]
    ELSE IF a # -2147483647 - 1 THEN [ok |-> TRUE, n |-> -a]
         ELSE IF checks THEN [ok |-> FALSE]
         ELSE [ok |-> TRUE, n |-> a]

\* `int += T::from(d)` on a signed integer of w bits, d being an i8. At 32
\* bits the overflow is decided before the sum is computed.
AddS(a, d, w, checks) ==
    IF w # 32 THEN StepS(a + d, w, checks)
    ELSE IF d >= 0 /\ a > 2147483647 - d
    THEN IF checks THEN [ok |-> FALSE]
         ELSE [ok |-> TRUE, n |-> (a - 2147483647) + (d - 1) + (-2147483647 - 1)]
    ELSE IF d < 0 /\ a < (-2147483647 - 1) - d
    THEN IF checks THEN [ok |-> FALSE]
         ELSE [ok |-> TRUE, n |-> (a - (-2147483647 - 1)) + (d + 1) + 2147483647]
    ELSE [ok |-> TRUE, n |-> a + d]

\* `ch as u8 - b'0'`
DigitOf(ch, checks) == StepU(CharCode(ch) - 48, 8, checks)

RECURSIVE AccumulateUnsigned(_, _, _, _)
\* for ch in s.chars() { int *= 10; int += ch as u8 - b'0' }
AccumulateUnsigned(s, int, w, checks) ==
    IF s = <<>> THEN [ok |-> TRUE, n |-> int]
    ELSE LET with_a(a) == IF ~a.ok THEN [ok |-> FALSE]
                          ELSE AccumulateUnsigned(Tail(s), a.n, w, checks)
             with_m_d(m, d) == IF ~m.ok \/ ~d.ok THEN [ok |-> FALSE]
                               ELSE with_a(StepU(m.n + d.n, w, checks))
         IN  with_m_d(StepU(int * 10, w, checks), DigitOf(Head(s), checks))

\* a variant that takes the end of the input for the closing quote
parse_unsigned_to_end(input, w, checks) ==
    LET with_int(int, rest) == IF int.ok THEN R_Ok(int.n, rest) ELSE R_Err(Panic, rest)
        with_len(c, len) ==
            IF len < 0
            THEN with_int(AccumulateUnsigned(c.input, 0, w, checks), <<>>)
            ELSE with_int(AccumulateUnsigned(SliceTo(c.input, len), 0, w, checks),
                          SliceFrom(c.input, len + 1))
        with_c(c) ==
            IF ~c.ok THEN c
            ELSE IF c.val # Q THEN R_Err("ExpectedString", c.input)
            ELSE with_len(c, find(c.input, Q, 0))
    IN  with_c(next_char(input))

parse_unsigned(input, w, checks) ==
    LET with_int(int, rest) == IF int.ok THEN R_Ok(int.n, rest) ELSE R_Err(Panic, rest)
        with_len(c, len) ==
            IF len < 0 THEN R_Err("Eof", c.input)
            ELSE with_int(AccumulateUnsigned(SliceTo(c.input, len), 0, w, checks),
                          SliceFrom(c.input, len + 1))
        with_c(c) ==
            IF ~c.ok THEN c
            ELSE IF c.val # Q THEN R_Err("ExpectedString", c.input)
            ELSE with_len(c, find(c.input, Q, 0))
    IN  with_c(next_char(input))

\* `rrr as i8`
AsI8(rrr) == IF rrr >= 128 THEN rrr - 256 ELSE rrr

RECURSIVE AccumulateSigned(_, _, _, _)
\* for ch in s.chars() { int *= 10; let rrr = ch as u8 - b'0'; int += rrr as i8 }
AccumulateSigned(s, int, w, checks) ==
    IF s = <<>> THEN [ok |-> TRUE, n |-> int]
    ELSE LET with_a(a) == IF ~a.ok THEN [ok |-> FALSE]
                          ELSE AccumulateSigned(Tail(s), a.n, w, checks)
             with_m_d(m, d) == IF ~m.ok \/ ~d.ok THEN [ok |-> FALSE]
                               ELSE with_a(AddS(m.n, AsI8(d.n), w, checks))
         IN  with_m_d(MulS(int, 10, w, checks), DigitOf(Head(s), checks))

\* a variant that streams the sign into the accumulator's first digit only
parse_signed_sign_dropped(input, w, checks) ==
    LET with_int(int, rest) == IF ~int.ok THEN R_Err(Panic, rest) ELSE R_Ok(int.n, rest)
        with_s_src(c, len, s_src) ==
            with_int(AccumulateSigned(IF starts_with(s_src, <<"-">>)
                                      THEN SliceFrom(s_src, 1) ELSE s_src, 0, w, checks),
                     SliceFrom(c.input, len + 1))
        with_len(c, len) ==
            IF len < 0 THEN R_Err("Eof", c.input)
            ELSE with_s_src(c, len, SliceTo(c.input, len))
        with_c(c) ==
            IF ~c.ok THEN c
            ELSE IF c.val # Q THEN R_Err("ExpectedString", c.input)
            ELSE with_len(c, find(c.input, Q, 0))
    IN  with_c(next_char(input))

\* a variant that asks for at least one digit between the quotes
parse_signed_needing_digits(input, w, checks) ==
    LET with_r(r, rest) == IF r.ok THEN R_Ok(r.n, rest) ELSE R_Err(Panic, rest)
        with_int(int, sign, rest) ==
            IF ~int.ok THEN R_Err(Panic, rest)
            ELSE with_r(MulS(int.n, sign, w, checks), rest)
        with_neg(s_src, neg, rest) ==
            IF s_src = (IF neg THEN <<"-">> ELSE <<>>) THEN R_Err("Syntax", rest)
            ELSE with_int(AccumulateSigned(IF neg THEN SliceFrom(s_src, 1) ELSE s_src,
                                           0, w, checks),
                          IF neg THEN -1 ELSE 1, rest)
        with_s_src(s_src, rest) == with_neg(s_src, starts_with(s_src, <<"-">>), rest)
        with_len(c, len) ==
            IF len < 0 THEN R_Err("Eof", c.input)
            ELSE with_s_src(SliceTo(c.input, len), SliceFrom(c.input, len + 1))
        with_c(c) ==
            IF ~c.ok THEN c
            ELSE IF c.val # Q THEN R_Err("ExpectedString", c.input)
            ELSE with_len(c, find(c.input, Q, 0))
    IN  with_c(next_char(input))

parse_signed(input, w, checks) ==
    LET with_r(r, rest) == IF r.ok THEN R_Ok(r.n, rest) ELSE R_Err(Panic, rest)
        with_int(int, sign, rest) ==
            IF ~int.ok THEN R_Err(Panic, rest)
            ELSE with_r(MulS(int.n, sign, w, checks), rest)
        with_neg(s_src, neg, rest) ==
            with_int(AccumulateSigned(IF neg THEN SliceFrom(s_src, 1) ELSE s_src, 0, w, checks),
                     IF neg THEN -1 ELSE 1, rest)
        with_s_src(s_src, rest) == with_neg(s_src, starts_with(s_src, <<"-">>), rest)
        with_len(c, len) ==
            IF len < 0 THEN R_Err("Eof", c.input)
            ELSE with_s_src(SliceTo(c.input, len), SliceFrom(c.input, len + 1))
        with_c(c) ==
            IF ~c.ok THEN c
            ELSE IF c.val # Q THEN R_Err("ExpectedString", c.input)
            ELSE with_len(c, find(c.input, Q, 0))
    IN  with_c(next_char(input))

\* a scan that takes every quote as the end of the string
ScanEnd_ignoring_escapes(inp, idx, is_escaped) ==
    IF \E i \in DOMAIN inp : inp[i] = Q
    THEN (CHOOSE i \in DOMAIN inp : inp[i] = Q /\ \A j \in 1..(i - 1) : inp[j] # Q) - 1
    ELSE 0

RECURSIVE ScanEnd(_, _, _)
\* the char_indices loop of parse_string: zero-based index of the first
\* unescaped quote, 0 when the loop ends without finding one
ScanEnd(inp, idx, is_escaped) ==
    IF idx >= Len(inp) THEN 0
    ELSE IF is_escaped THEN ScanEnd(inp, idx + 1, FALSE)
    ELSE IF inp[idx + 1] = BS THEN ScanEnd(inp, idx + 1, TRUE)
    ELSE IF inp[idx + 1] = Q THEN idx
    ELSE ScanEnd(inp, idx + 1, FALSE)

\* a line feed, as a character of the input
NL == "\n"

\* the substitutions of parse_string with the one for \n that the code has
\* commented out
Unescape_with_newline(r) ==
    replace(replace(replace(r, <<BS, Q>>, <<Q>>), <<BS, BS>>, <<BS>>), <<BS, "n">>, <<NL>>)

\* the two substitutions of parse_string, in the order the code applies them
Unescape(r) == replace(replace(r, <<BS, Q>>, <<Q>>), <<BS, BS>>, <<BS>>)

\* Deserializer::parse_string. `&self.input[end_idx + 1..]` panics when the
\* index is past the end, and when it is inside a character: with no closing
\* quote end_idx stays 0 and byte 1 is inside a first character of more than
\* one byte
parse_string(input) ==
    LET with_end_idx(c, end_idx) ==
            IF end_idx + 1 > Len(c.input) THEN R_Err(Panic, c.input)
            ELSE IF len_utf8(c.input[end_idx + 1]) > 1 THEN R_Err(Panic, c.input)
            ELSE R_Ok(Unescape(SliceTo(c.input, end_idx)), SliceFrom(c.input, end_idx + 1))
        with_c(c) ==
            IF ~c.ok THEN c
            ELSE IF c.val # Q THEN R_Err("ExpectedString", c.input)
            ELSE with_end_idx(c, ScanEnd(c.input, 0, FALSE))
    IN  with_c(next_char(input))

----------------------------------------------------------------------------
(* ORM::escape_json *)

\* a variant that escapes the quotes before the backslashes
escape_json_quotes_first(input) ==
    replace(replace(input, <<Q>>, <<BS, Q>>), <<BS>>, <<BS, BS>>)

escape_json(input) == replace(replace(input, <<BS>>, <<BS, BS>>), <<Q>>, <<BS, Q>>)

----------------------------------------------------------------------------
(* Target shapes: what the caller asks the deserializer to decode *)

TInt(w) == [k |-> "int", w |-> w]
TUint(w) == [k |-> "uint", w |-> w]
TBool == [k |-> "bool"]
TString == [k |-> "string"]
TUnit == [k |-> "unit"]
TOption(t) == [k |-> "option", of |-> t]
TSeq(t) == [k |-> "seq", of |-> t]
\* fields: a sequence of [name, ty], in declaration order
TStruct(fields) == [k |-> "struct", fields |-> fields]
\* variants: a sequence of [name, kind, ty], kind "unit" or "newtype"
TEnum(variants) == [k |-> "enum", variants |-> variants]
\* serde's IgnoredAny, the target of a value whose key is no declared field
TIgnored == [k |-> "ignored"]

Field(name, ty) == [name |-> name, ty |-> ty]
Variant(name, kind, ty) == [name |-> name, kind |-> kind, ty |-> ty]

\* position of the entry called `name` in a field or variant list, 0 when none is
NameIndex(entries, name) ==
    IF \E i \in DOMAIN entries : entries[i].name = name
    THEN CHOOSE i \in DOMAIN entries : entries[i].name = name
    ELSE 0

NULL == <<"n", "u", "l", "l">>

----------------------------------------------------------------------------
(* Deserializer: the type-directed decode *)

RECURSIVE deserialize(_, _, _)
RECURSIVE deserialize_any(_, _)
RECURSIVE deserialize_option(_, _, _)
RECURSIVE deserialize_seq(_, _, _)
RECURSIVE deserialize_map(_, _, _)
RECURSIVE deserialize_enum(_, _, _)
RECURSIVE next_element_seed(_, _, _, _)
RECURSIVE next_key_seed(_, _, _, _)
RECURSIVE next_value_seed(_, _, _)
RECURSIVE variant_seed(_, _)
RECURSIVE visit_seq(_, _, _, _, _)
RECURSIVE visit_map(_, _, _, _, _)
RECURSIVE visit_map_ignored(_, _, _)
RECURSIVE visit_enum(_, _, _)

deserialize_unit(input) ==
    IF starts_with(input, NULL) THEN R_Ok(<<>>, SliceFrom(input, 4))
    ELSE R_Err("ExpectedNull", input)

\* a variant that leaves the literal null in the input
deserialize_option_peeking(ty, input, checks) ==
    IF starts_with(input, NULL) THEN R_Ok(None, input)
    ELSE LET with_inner(inner) ==
                 IF inner.ok THEN R_Ok(Some(inner.val), inner.input) ELSE inner
         IN  with_inner(deserialize(ty.of, input, checks))

deserialize_option(ty, input, checks) ==
    IF starts_with(input, NULL) THEN R_Ok(None, SliceFrom(input, 4))
    ELSE LET with_inner(inner) ==
                 IF inner.ok THEN R_Ok(Some(inner.val), inner.input) ELSE inner
         IN  with_inner(deserialize(ty.of, input, checks))

\* a variant that takes a comma before an element when there is one and
\* does not miss it when there is none
next_element_seed_comma_optional(ty, input, first, checks) ==
    LET with_e(e) == IF e.ok THEN R_Ok(Some(e.val), e.input) ELSE e
        with_p(p) ==
            IF ~p.ok THEN p
            ELSE IF p.val = "]" THEN R_Ok(None, input)
            ELSE with_e(deserialize(ty, IF ~first /\ Head(input) = ","
                                        THEN Tail(input) ELSE input, checks))
    IN  with_p(peek_char(input))

\* SeqAccess::next_element_seed: Ok(None) at `]`, else the next element
next_element_seed(ty, input, first, checks) ==
    LET with_e(e) == IF e.ok THEN R_Ok(Some(e.val), e.input) ELSE e
        with_p(p) ==
            IF ~p.ok THEN p
            ELSE IF p.val = "]" THEN R_Ok(None, input)
            ELSE IF ~first /\ Head(input) # "," THEN R_Err("ExpectedArrayComma", Tail(input))
            ELSE with_e(deserialize(ty, IF first THEN input ELSE Tail(input), checks))
    IN  with_p(peek_char(input))

\* the Vec<T> (and IgnoredAny) visitor: elements until next_element yields None
visit_seq(ty, input, first, acc, checks) ==
    LET with_e(e) ==
            IF ~e.ok THEN e
            ELSE IF ~e.val.some THEN R_Ok(acc, e.input)
            ELSE visit_seq(ty, e.input, FALSE, Append(acc, e.val.v), checks)
    IN  with_e(next_element_seed(ty, input, first, checks))

deserialize_seq(ty, input, checks) ==
    LET with_n(value, n) ==
            IF ~n.ok THEN n
            ELSE IF n.val = "]" THEN R_Ok(value.val, n.input)
            ELSE R_Err("ExpectedArrayEnd", n.input)
        with_value(value) ==
            IF ~value.ok THEN value ELSE with_n(value, next_char(value.input))
        with_c(c) ==
            IF ~c.ok THEN c
            ELSE IF c.val # "[" THEN R_Err("ExpectedArray", c.input)
            ELSE with_value(visit_seq(ty.of, c.input, TRUE, <<>>, checks))
    IN  with_c(next_char(input))

\* a variant that takes a comma before an entry when there is one and does
\* not miss it when there is none
next_key_seed_comma_optional(kty, input, first, checks) ==
    LET with_key(key) == IF key.ok THEN R_Ok(Some(key.val), key.input) ELSE key
        with_p(p) ==
            IF ~p.ok THEN p
            ELSE IF p.val = "}" THEN R_Ok(None, input)
            ELSE with_key(deserialize(kty, IF ~first /\ Head(input) = ","
                                           THEN Tail(input) ELSE input, checks))
    IN  with_p(peek_char(input))

\* MapAccess::next_key_seed: Ok(None) at `}`, else the next key
next_key_seed(kty, input, first, checks) ==
    LET with_key(key) == IF key.ok THEN R_Ok(Some(key.val), key.input) ELSE key
        with_p(p) ==
            IF ~p.ok THEN p
            ELSE IF p.val = "}" THEN R_Ok(None, input)
            ELSE IF ~first /\ Head(input) # "," THEN R_Err("ExpectedMapComma", Tail(input))
            ELSE with_key(deserialize(kty, IF first THEN input ELSE Tail(input), checks))
    IN  with_p(peek_char(input))

\* MapAccess::next_value_seed: the colon, then the value
next_value_seed(vty, input, checks) ==
    LET with_c(c) ==
            IF ~c.ok THEN c
            ELSE IF c.val # ":" THEN R_Err("ExpectedMapColon", c.input)
            ELSE deserialize(vty, c.input, checks)
    IN  with_c(next_char(input))

\* the visitor serde derives for a struct: keys are identifiers, a declared
\* field may appear once, an undeclared key's value is ignored, and at the
\* end a missing field is None for an Option and an error otherwise
visit_map(fields, input, first, slots, checks) ==
    LET with_v(idx, v) ==
            IF ~v.ok THEN v
            ELSE visit_map(fields, v.input, FALSE,
                           IF idx = 0 THEN slots ELSE [slots EXCEPT ![idx] = Some(v.val)],
                           checks)
        with_idx(key, idx) ==
            IF idx # 0 /\ slots[idx].some THEN R_Err("Message", key.input)
            ELSE with_v(idx, next_value_seed(IF idx = 0 THEN TIgnored ELSE fields[idx].ty,
                                             key.input, checks))
        with_key(key) ==
            IF ~key.ok THEN key
            ELSE IF ~key.val.some
            THEN IF \E i \in DOMAIN fields : ~slots[i].some /\ fields[i].ty.k # "option"
                 THEN R_Err("Message", key.input)
                 ELSE R_Ok([i \in DOMAIN fields |-> IF slots[i].some THEN slots[i].v ELSE None],
                           key.input)
            ELSE with_idx(key, NameIndex(fields, key.val.v))
    IN  with_key(next_key_seed(TString, input, first, checks))

\* the IgnoredAny visitor of a map: every key and value is decoded and dropped
visit_map_ignored(input, first, checks) ==
    LET with_v(v) == IF ~v.ok THEN v ELSE visit_map_ignored(v.input, FALSE, checks)
        with_key(key) ==
            IF ~key.ok THEN key
            ELSE IF ~key.val.some THEN R_Ok(<<>>, key.input)
            ELSE with_v(next_value_seed(TIgnored, key.input, checks))
    IN  with_key(next_key_seed(TIgnored, input, first, checks))

\* deserialize_struct delegates here
deserialize_map(ty, input, checks) ==
    LET with_n(value, n) ==
            IF ~n.ok THEN n
            ELSE IF n.val = "}" THEN R_Ok(value.val, n.input)
            ELSE R_Err("ExpectedMapEnd", n.input)
        with_value(value) ==
            IF ~value.ok THEN value ELSE with_n(value, next_char(value.input))
        with_c(c) ==
            IF ~c.ok THEN c
            ELSE IF c.val # "{" THEN R_Err("ExpectedMap", c.input)
            ELSE with_value(IF ty.k = "struct"
                            THEN visit_map(ty.fields, c.input, TRUE,
                                           [i \in DOMAIN ty.fields |-> None], checks)
                            ELSE visit_map_ignored(c.input, TRUE, checks))
    IN  with_c(next_char(input))

\* EnumAccess::variant_seed: the variant name (an identifier), then the colon
variant_seed(ty, input) ==
    LET with_c(idx, c) ==
            IF ~c.ok THEN c
            ELSE IF c.val = ":" THEN R_Ok(idx, c.input)
            ELSE R_Err("ExpectedMapColon", c.input)
        with_idx(val, idx) ==
            IF idx = 0 THEN R_Err("Message", val.input)
            ELSE with_c(idx, next_char(val.input))
        with_val(val) ==
            IF ~val.ok THEN val ELSE with_idx(val, NameIndex(ty.variants, val.val))
    IN  with_val(parse_string(input))

\* a variant whose unit variant decodes its payload as a unit
visit_enum_unit_payload(ty, input, checks) ==
    LET with_payload(variant, payload) ==
            IF ~payload.ok THEN payload
            ELSE R_Ok([variant |-> variant.name, payload |-> payload.val], payload.input)
        with_variant(v, variant) ==
            with_payload(variant, deserialize(variant.ty, v.input, checks))
        with_v(v) == IF ~v.ok THEN v ELSE with_variant(v, ty.variants[v.val])
    IN  with_v(variant_seed(ty, input))

\* the visitor serde derives for an enum, on the object form: the variant
\* named by the key decodes its payload (VariantAccess for Enum)
visit_enum(ty, input, checks) ==
    LET with_payload(variant, payload) ==
            IF ~payload.ok THEN payload
            ELSE R_Ok([variant |-> variant.name, payload |-> payload.val], payload.input)
        with_variant(v, variant) ==
            IF variant.kind = "unit" THEN R_Err("ExpectedString", v.input)
            ELSE with_payload(variant, deserialize(variant.ty, v.input, checks))
        with_v(v) == IF ~v.ok THEN v ELSE with_variant(v, ty.variants[v.val])
    IN  with_v(variant_seed(ty, input))

\* a variant that reports the map error for input that starts no enum shape
deserialize_enum_expected_map(ty, input, checks) ==
    LET with_idx(s, idx) ==
            IF idx = 0 THEN R_Err("Message", s.input)
            ELSE IF ty.variants[idx].kind # "unit" THEN R_Err("Message", s.input)
            ELSE R_Ok([variant |-> s.val], s.input)
        with_s(s) == IF ~s.ok THEN s ELSE with_idx(s, NameIndex(ty.variants, s.val))
        with_n(value, n) ==
            IF ~n.ok THEN n
            ELSE IF n.val = "}" THEN R_Ok(value.val, n.input)
            ELSE R_Err("ExpectedMapEnd", n.input)
        with_value(value) ==
            IF ~value.ok THEN value ELSE with_n(value, next_char(value.input))
        with_c(c) ==
            IF c.val # "{" THEN R_Err("ExpectedMap", c.input)
            ELSE with_value(visit_enum(ty, c.input, checks))
        with_p(p) ==
            IF ~p.ok THEN p
            ELSE IF p.val = Q THEN with_s(parse_string(input))
            ELSE with_c(next_char(input))
    IN  with_p(peek_char(input))

deserialize_enum(ty, input, checks) ==
    LET with_idx(s, idx) ==
            IF idx = 0 THEN R_Err("Message", s.input)
            ELSE IF ty.variants[idx].kind # "unit" THEN R_Err("Message", s.input)
            ELSE R_Ok([variant |-> s.val], s.input)
        with_s(s) == IF ~s.ok THEN s ELSE with_idx(s, NameIndex(ty.variants, s.val))
        with_n(value, n) ==
            IF ~n.ok THEN n
            ELSE IF n.val = "}" THEN R_Ok(value.val, n.input)
            ELSE R_Err("ExpectedMapEnd", n.input)
        with_value(value) ==
            IF ~value.ok THEN value ELSE with_n(value, next_char(value.input))
        with_c(c) ==
            IF c.val # "{" THEN R_Err("ExpectedEnum", c.input)
            ELSE with_value(visit_enum(ty, c.input, checks))
        with_p(p) ==
            IF ~p.ok THEN p
            ELSE IF p.val = Q THEN with_s(parse_string(input))
            ELSE with_c(next_char(input))
    IN  with_p(peek_char(input))

\* a variant that has no branch for a leading digit
deserialize_any_without_digits(input, checks) ==
    LET with_p(p) ==
            IF ~p.ok THEN p
            ELSE CASE p.val = "n" -> deserialize_unit(input)
                   [] p.val \in {"t", "f"} -> parse_bool(input)
                   [] p.val = Q -> parse_string(input)
                   [] p.val = "-" -> parse_signed(input, 64, checks)
                   [] p.val = "[" -> deserialize_seq(TSeq(TIgnored), input, checks)
                   [] p.val = "{" -> deserialize_map(TIgnored, input, checks)
                   [] OTHER -> R_Err("Syntax", input)
    IN  with_p(peek_char(input))

\* deserialize_ignored_any delegates here
deserialize_any(input, checks) ==
    LET with_p(p) ==
            IF ~p.ok THEN p
            ELSE CASE p.val = "n" -> deserialize_unit(input)
                   [] p.val \in {"t", "f"} -> parse_bool(input)
                   [] p.val = Q -> parse_string(input)
                   [] p.val \in Range(Digits) -> parse_unsigned(input, 64, checks)
                   [] p.val = "-" -> parse_signed(input, 64, checks)
                   [] p.val = "[" -> deserialize_seq(TSeq(TIgnored), input, checks)
                   [] p.val = "{" -> deserialize_map(TIgnored, input, checks)
                   [] OTHER -> R_Err("Syntax", input)
    IN  with_p(peek_char(input))

\* T::deserialize(&mut deserializer) for the target shape ty
deserialize(ty, input, checks) ==
    CASE ty.k = "int" -> parse_signed(input, ty.w, checks)
      [] ty.k = "uint" -> parse_unsigned(input, ty.w, checks)
      [] ty.k = "bool" -> parse_bool(input)
      [] ty.k = "string" -> parse_string(input)
      [] ty.k = "unit" -> deserialize_unit(input)
      [] ty.k = "option" -> deserialize_option(ty, input, checks)
      [] ty.k = "seq" -> deserialize_seq(ty, input, checks)
      [] ty.k = "struct" -> deserialize_map(ty, input, checks)
      [] ty.k = "enum" -> deserialize_enum(ty, input, checks)
      [] ty.k = "ignored" -> deserialize_any(input, checks)

\* what a call returns to its caller: the value or the error, without the cursor
Returned(r) == IF r.ok THEN [ok |-> TRUE, val |-> r.val] ELSE [ok |-> FALSE, err |-> r.err]

\* a variant that returns the value without looking at the cursor
from_str_unchecked(ty, s, checks) ==
    Returned(deserialize(ty, s, checks))

from_str(ty, s, checks) ==
    LET with_t(t) ==
            IF ~t.ok THEN Returned(t)
            ELSE IF t.input = <<>> THEN [ok |-> TRUE, val |-> t.val]
            ELSE [ok |-> FALSE, err |-> "TrailingCharacters"]
    IN  with_t(deserialize(ty, s, checks))

----------------------------------------------------------------------------
(* Row (lib.rs) and the row reconstruction protocol *)

\* Row::new: no column is set
Row_new == [i \in {} |-> None]

\* Row::set(index, value): value is None or Some(text)
Row_set(row, index, value) ==
    [i \in DOMAIN row \cup {index} |-> IF i = index THEN value ELSE row[i]]

\* Row::get::<String>(index): String::from_str never fails
Row_get(row, index) ==
    IF index \in DOMAIN row /\ row[index].some THEN Some(row[index].v) ELSE None

\* T::fields(): the declared field names, in declaration order
fields(ty) == [i \in DOMAIN ty.fields |-> ty.fields[i].name]

\* a variant that emits a present column without the surrounding quotes
user_str_bare(columns, row) ==
    <<"{">> \o join([i \in DOMAIN columns |->
                        <<Q>> \o columns[i] \o <<Q, ":">>
                        \o (IF Row_get(row, i - 1).some
                            THEN escape_json(Row_get(row, i - 1).v)
                            ELSE NULL)], <<",">>)
            \o <<"}">>

\* a variant whose column index moves on only past a column that is present
user_str_index_stalls(columns, row) ==
    <<"{">> \o join([i \in DOMAIN columns |->
                        <<Q>> \o columns[i] \o <<Q, ":">>
                        \o (IF Row_get(row, Cardinality({j \in 1..(i - 1) :
                                                           Row_get(row, j - 1).some})).some
                            THEN <<Q>> \o escape_json(Row_get(row, Cardinality(
                                        {j \in 1..(i - 1) : Row_get(row, j - 1).some})).v) \o <<Q>>
                            ELSE NULL)], <<",">>)
            \o <<"}">>

\* the object text built for one row: "column":value entries with column
\* index i for the i-th declared field, a present value escaped and quoted,
\* an absent one bare null
user_str(columns, row) ==
    <<"{">> \o join([i \in DOMAIN columns |->
                        <<Q>> \o columns[i] \o <<Q, ":">>
                        \o (IF Row_get(row, i - 1).some
                            THEN <<Q>> \o escape_json(Row_get(row, i - 1).v) \o <<Q>>
                            ELSE NULL)], <<",">>)
            \o <<"}">>

----------------------------------------------------------------------------
(* Inputs enumerated by the decode specification *)

RECURSIVE TextsOver(_, _)
\* every text of at most n characters over the alphabet
TextsOver(alphabet, n) ==
    IF n = 0 THEN {<<>>}
    ELSE LET shorter == TextsOver(alphabet, n - 1)
         IN  shorter \cup {<<ch>> \o t : ch \in alphabet, t \in {u \in shorter : Len(u) = n - 1}}

\* string values: backslash, double quote, single quote and a letter that
\* forms the two-character sequence \n after a backslash
TextAlphabet == {BS, Q, "'", "n"}
Texts == TextsOver(TextAlphabet, MaxLen)

\* what may follow a value in the input
Rests == {<<>>, <<",">>, <<Q, "a">>, <<"}">>}

DigitAlphabet == {"0", "1", "2", "7", "8"}
DigitRuns == TextsOver(DigitAlphabet, MaxDigits) \ {<<>>}

\* integer widths the model computes with
Widths == {8, 16}

RECURSIVE to_string(_)
\* i32::to_string and friends: the decimal text of an integer
to_string(n) ==
    IF n >= 10 THEN to_string(n \div 10) \o <<Digits[(n % 10) + 1]>>
    ELSE IF n >= 0 THEN <<Digits[n + 1]>>
    ELSE LET with_q(q) ==
                 (IF q = 0 THEN <<"-">> ELSE to_string(q)) \o <<Digits[(q * 10 - n) + 1]>>
         IN  with_q(IF n % 10 = 0 THEN n \div 10 ELSE (n \div 10) + 1)

\* struct Test { id: i32, id_positive: i32, name: String, ud: u64 }: the
\* record of tests::test_struct and tests::test_escape
TestT ==
    TStruct(<<Field(<<"i", "d">>, TInt(32)),
              Field(<<"i", "d", "_", "p", "o", "s", "i", "t", "i", "v", "e">>, TInt(32)),
              Field(<<"n", "a", "m", "e">>, TString),
              Field(<<"u", "d">>, TUint(64))>>)

\* records of that shape: the ends of i32 and the values of the tests
TestRecords ==
    {<<id, id_positive, name, ud>> :
        id \in {-2147483647 - 1, -222, 2147483647},
        id_positive \in {1},
        name \in Texts,
        ud \in {0, 777}}

RECURSIVE serialize_value(_, _)
\* the key-value wire text of one value: a present scalar is a quoted string
\* with backslash and double quote escaped, an absent option is bare null
serialize_value(ty, v) ==
    CASE ty.k = "option" -> IF v.some THEN serialize_value(ty.of, v.v) ELSE NULL
      [] ty.k = "string" -> <<Q>> \o escape_json(v) \o <<Q>>
      [] ty.k \in {"int", "uint"} -> <<Q>> \o to_string(v) \o <<Q>>

\* the key-value wire text of a record: "field":value entries in declaration
\* order, comma-joined inside braces
serialize_as_kv(ty, rec) ==
    <<"{">> \o join([i \in DOMAIN ty.fields |->
                        <<Q>> \o ty.fields[i].name \o <<Q, ":">>
                        \o serialize_value(ty.fields[i].ty, rec[i])], <<",">>)
            \o <<"}">>

\* struct User { id: i32, name: Option<String>, age: i32 }: the record of
\* the tests (test/src/main.rs)
UserT ==
    TStruct(<<Field(<<"i", "d">>, TInt(32)),
              Field(<<"n", "a", "m", "e">>, TOption(TString)),
              Field(<<"a", "g", "e">>, TInt(32))>>)

\* records of that shape: the ends of i32 for the id, a name absent or present
UserRecords ==
    {<<id, name, age>> :
        id \in {-2147483647 - 1, 1},
        name \in {None} \cup {Some(t) : t \in Texts},
        age \in {-1, 30}}

\* a Row of three columns, each absent or holding a text; the name column
\* may be missing from the map or set to None
UserRows ==
    {[i \in present |-> IF i = 0 THEN Some(<<"1">>)
                        ELSE IF i = 1 THEN name
                        ELSE Some(<<"3", "0">>)] :
        present \in {p \in SUBSET {0, 1, 2} : 1 \in p},
        name \in {None} \cup {Some(t) : t \in Texts \cup {NULL}}}
    \cup {[i \in present |-> IF i = 0 THEN Some(<<"1">>) ELSE Some(<<"3", "0">>)] :
            present \in SUBSET {0, 2}}

\* struct AB { a: u8, b: u8 }
ABT == TStruct(<<Field(<<"a">>, TUint(8)), Field(<<"b">>, TUint(8))>>)

EntryA == <<Q, "a", Q, ":", Q, "1", Q>>
EntryB == <<Q, "b", Q, ":", Q, "2", Q>>

\* object texts around the entries "a":"1" and "b":"2": what stands before
\* the first entry, between the entries, after the last one, whether the
\* brace closes, and what follows the object
StructTexts ==
    {[entries |-> es, lead |-> lead, sep |-> sep, trail |-> trail, close |-> close, tail |-> tail] :
        es \in {<<>>, <<EntryA>>, <<EntryA, EntryB>>, <<EntryB, EntryA>>, <<EntryA, EntryA>>},
        lead \in {<<>>, <<",">>},
        sep \in {<<",">>, <<>>, <<",", ",">>, <<":">>},
        trail \in {<<>>, <<",">>},
        close \in {<<"}">>, <<>>},
        tail \in {<<>>, <<" ">>, <<"x">>}}

StructText(t) ==
    <<"{">> \o t.lead \o join(t.entries, t.sep) \o t.trail \o t.close \o t.tail

\* enum E { A, B(u8) }
EnumT == TEnum(<<Variant(<<"A">>, "unit", TUnit), Variant(<<"B">>, "newtype", TUint(8))>>)

\* enum inputs: the two well-formed shapes, objects that are not a
\* well-formed single entry, and texts that start neither shape
EnumTexts ==
    {<<Q, "A", Q>>, <<Q, "B", Q>>, <<Q, "C", Q>>,
     <<"{", Q, "B", Q, ":", Q, "1", Q, "}">>,
     <<"{", Q, "A", Q, ":", "n", "u", "l", "l", "}">>,
     <<"{", Q, "B", Q, ":", Q, "1", Q>>,
     <<"{", Q, "B", Q, Q, "1", Q, "}">>,
     <<"{", Q, "C", Q, ":", Q, "1", Q, "}">>,
     <<"{", "}">>, <<"{", "}", "x">>, <<"{">>, <<>>,
     <<"{", Q, "B", Q, ":", Q, "1", Q, "x">>,
     <<"{", Q, "B", Q, ":", Q, "1", Q, ",", "}">>,
     <<"{", Q, "A", Q, ":", Q, "1", Q, "}">>,
     <<"{", Q, "A", Q, ":">>}
    \cup {<<ch>> \o t : ch \in {"5", "0", "-", "n", "t", "[", "}", ":", " "},
                        t \in {<<>>, <<"1">>, <<"}">>, <<Q, "A", Q>>}}

----------------------------------------------------------------------------
(* The decode specification: one call of a parsing function or of from_str *)
(* on a Deserializer constructed for that call                             *)

NotCalled == [ok |-> FALSE, err |-> "NotCalled"]
Callers == 1..NumCallers
Indexes == 0..MaxIndex
NeverSet == [never |-> TRUE]

Init ==
    /\ overflow_checks \in BOOLEAN
    /\ call = [op |-> "none"]
    /\ de = [ok |-> FALSE, err |-> "NotCalled", input |-> <<>>]
    /\ rv = NotCalled
    /\ backend = "sqlite"
    /\ conn = TRUE
    /\ table = <<>>
    /\ seq = 0
    /\ rowid = 0
    /\ ret = [op |-> "none"]
    /\ returned = {}
    /\ removed = {}
    /\ change_count = 0
    /\ last_change = [exists |-> FALSE, rows |-> <<>>]
    /\ calls = 0
    /\ applied = [k \in 1..MaxChanges |-> 0]
    /\ conn_lock = 0
    /\ pc = [p \in Callers |-> "idle"]
    /\ job = [p \in Callers |-> [op |-> "none"]]
    /\ count_lock = 0
    /\ change_calls = [p \in Callers |-> 0]
    /\ row_columns = Row_new
    /\ stored = [i \in Indexes |-> NeverSet]
    /\ got = [index |-> 0, z |-> "none"]

\* parse_string on an escaped value between quotes, followed by `rest`
ParseString ==
    /\ call.op = "none"
    /\ \E v \in Texts, rest \in Rests :
        LET on(src, r) ==
                /\ call' = [op |-> "parse_string", v |-> v, rest |-> rest, src |-> src]
                /\ de' = r
                /\ rv' = Returned(r)
                /\ UNCHANGED <<overflow_checks, backend, ormVars, rowVars>>
            with_src(src) == on(src, parse_string(src))
        IN  with_src(<<Q>> \o escape_json(v) \o <<Q>> \o rest)

\* parse_signed on a quoted digit run with an optional leading minus
ParseSigned ==
    /\ call.op = "none"
    /\ \E w \in Widths, neg \in BOOLEAN, ds \in DigitRuns, rest \in Rests :
        LET on(src, r) ==
                /\ call' = [op |-> "parse_signed", w |-> w, neg |-> neg, ds |-> ds,
                            rest |-> rest, src |-> src]
                /\ de' = r
                /\ rv' = Returned(r)
                /\ UNCHANGED <<overflow_checks, backend, ormVars, rowVars>>
            with_src(src) == on(src, parse_signed(src, w, overflow_checks))
        IN  with_src(<<Q>> \o (IF neg THEN <<"-">> ELSE <<>>) \o ds \o <<Q>> \o rest)

\* parse_unsigned on a quoted digit run
ParseUnsigned ==
    /\ call.op = "none"
    /\ \E w \in Widths, ds \in DigitRuns, rest \in Rests :
        LET on(src, r) ==
                /\ call' = [op |-> "parse_unsigned", w |-> w, ds |-> ds,
                            rest |-> rest, src |-> src]
                /\ de' = r
                /\ rv' = Returned(r)
                /\ UNCHANGED <<overflow_checks, backend, ormVars, rowVars>>
            with_src(src) == on(src, parse_unsigned(src, w, overflow_checks))
        IN  with_src(<<Q>> \o ds \o <<Q>> \o rest)

\* from_str::<Test> and from_str::<User> on the key-value wire text of a
\* record
FromStrRecord ==
    /\ call.op = "none"
    /\ \E tr \in ({TestT} \X TestRecords) \cup ({UserT} \X UserRecords) :
        LET with_src(ty, rec, src) ==
                /\ call' = [op |-> "from_str_record", rec |-> rec, src |-> src]
                /\ de' = deserialize(ty, src, overflow_checks)
                /\ rv' = from_str(ty, src, overflow_checks)
                /\ UNCHANGED <<overflow_checks, backend, ormVars, rowVars>>
        IN  with_src(tr[1], tr[2], serialize_as_kv(tr[1], tr[2]))

\* one row of a multi-row run: the object text is rebuilt from the Row and
\* handed to from_str::<User>
ReconstructRow ==
    /\ call.op = "none"
    /\ \E row \in UserRows :
        LET with_src(src) ==
                /\ call' = [op |-> "from_str_row", row |-> row, src |-> src]
                /\ de' = deserialize(UserT, src, overflow_checks)
                /\ rv' = from_str(UserT, src, overflow_checks)
                /\ UNCHANGED <<overflow_checks, backend, ormVars, rowVars>>
        IN  with_src(user_str(fields(UserT), row))

\* from_str::<AB> on an object text
FromStrText ==
    /\ call.op = "none"
    /\ \E t \in StructTexts :
        LET with_src(src) ==
                /\ call' = [op |-> "from_str_text", text |-> t, src |-> src]
                /\ de' = deserialize(ABT, src, overflow_checks)
                /\ rv' = from_str(ABT, src, overflow_checks)
                /\ UNCHANGED <<overflow_checks, backend, ormVars, rowVars>>
        IN  with_src(StructText(t))

\* from_str::<E> on an enum text
FromStrEnum ==
    /\ call.op = "none"
    /\ \E src \in EnumTexts :
        /\ call' = [op |-> "from_str_enum", src |-> src]
        /\ de' = deserialize(EnumT, src, overflow_checks)
        /\ rv' = from_str(EnumT, src, overflow_checks)
        /\ UNCHANGED <<overflow_checks, backend, ormVars, rowVars>>

\* the texts handed to deserialize_any: one or more for every leading
\* character it tells apart
AnyTexts ==
    {<<>>,
     <<"n", "u", "l", "l">>, <<"n", "u", "l">>,
     <<"t", "r", "u", "e">>, <<"f", "a", "l", "s", "e">>, <<"t", "x">>,
     <<Q, "a", Q>>, <<Q, "5", Q>>, <<Q, "-", "5", Q>>,
     <<"5">>, <<"4", "2">>, <<"0", ",">>,
     <<"-", "5">>, <<"-">>,
     <<"[", "]">>, <<"[", Q, "a", Q, "]">>,
     <<"{", "}">>, <<"{", Q, "a", Q, ":", Q, "b", Q, "}">>,
     <<"x">>, <<" ", "5">>, <<"+", "5">>}

\* deserialize_any on a text, as deserialize_ignored_any calls it
DeserializeAny ==
    /\ call.op = "none"
    /\ \E src \in AnyTexts, rest \in Rests :
        \E r \in {deserialize_any(src \o rest, overflow_checks)} :
            /\ call' = [op |-> "deserialize_any", text |-> src, src |-> src \o rest]
            /\ de' = r
            /\ rv' = Returned(r)
            /\ UNCHANGED <<overflow_checks, backend, ormVars, rowVars>>

\* struct Flag { id: i16, on: bool }: a record with a boolean field
FlagT == TStruct(<<Field(<<"i", "d">>, TInt(16)), Field(<<"o", "n">>, TBool)>>)

\* the texts a boolean column may hold: the literals, and the integers that
\* SQLite stores for them
FlagTexts == {<<"t", "r", "u", "e">>, <<"f", "a", "l", "s", "e">>, <<"1">>, <<"0">>}

\* a Row of two columns, the second absent or holding a boolean's text
FlagRows ==
    {[i \in {0, 1} |-> IF i = 0 THEN Some(<<"1">>) ELSE Some(t)] : t \in FlagTexts}
    \cup {[i \in {0} |-> Some(<<"1">>)]}

\* one row of a multi-row run for a record with a boolean field
ReconstructFlagRow ==
    /\ call.op = "none"
    /\ \E row \in FlagRows :
        LET with_src(src) ==
                /\ call' = [op |-> "from_str_flag_row", row |-> row, src |-> src]
                /\ de' = deserialize(FlagT, src, overflow_checks)
                /\ rv' = from_str(FlagT, src, overflow_checks)
                /\ UNCHANGED <<overflow_checks, backend, ormVars, rowVars>>
        IN  with_src(user_str(fields(FlagT), row))

\* the texts handed to parse_string as they are: with and without an opening
\* quote, with and without a closing one
RawTexts ==
    TextsOver(TextAlphabet \cup {NL}, MaxLen + 1)
    \cup {<<Q, "é">>, <<Q, "é", BS, Q>>, <<Q, "€", "€">>, <<Q, "é", Q>>, <<Q, "n", "é">>,
          <<Q, BS, "é">>}

\* parse_string on a text that need not be well formed
ParseStringRaw ==
    /\ call.op = "none"
    /\ \E src \in RawTexts :
        \E r \in {parse_string(src)} :
            /\ call' = [op |-> "parse_string_raw", src |-> src]
            /\ de' = r
            /\ rv' = Returned(r)
            /\ UNCHANGED <<overflow_checks, backend, ormVars, rowVars>>

\* well-formed wire texts, each with the shape it is decoded as
WireTexts ==
    {[ty |-> TBool, w |-> <<"t", "r", "u", "e">>],
     [ty |-> TBool, w |-> <<"f", "a", "l", "s", "e">>],
     [ty |-> TUnit, w |-> NULL],
     [ty |-> TString, w |-> <<Q, "a", "b", Q>>],
     [ty |-> TString, w |-> <<Q, BS, Q, Q>>],
     [ty |-> TInt(8), w |-> <<Q, "-", "1", "2", Q>>],
     [ty |-> TUint(8), w |-> <<Q, "7", Q>>],
     [ty |-> TOption(TString), w |-> NULL],
     [ty |-> TOption(TUint(8)), w |-> <<Q, "7", Q>>],
     [ty |-> TSeq(TUint(8)), w |-> <<"[", Q, "1", Q, ",", Q, "2", Q, "]">>],
     [ty |-> ABT, w |-> <<"{">> \o EntryA \o <<",">> \o EntryB \o <<"}">>],
     [ty |-> EnumT, w |-> <<Q, "A", Q>>],
     [ty |-> EnumT, w |-> <<"{", Q, "B", Q, ":", Q, "1", Q, "}">>]}

\* from_str on a wire text cut short: its first n characters
FromStrPrefix ==
    /\ call.op = "none"
    /\ \E t \in WireTexts :
        \E n \in 0..(Len(t.w) - 1) :
            \E src \in {SubSeq(t.w, 1, n)} :
                /\ call' = [op |-> "from_str_prefix", ty |-> t.ty, w |-> t.w, src |-> src]
                /\ de' = deserialize(t.ty, src, overflow_checks)
                /\ rv' = from_str(t.ty, src, overflow_checks)
                /\ UNCHANGED <<overflow_checks, backend, ormVars, rowVars>>

\* integer inputs of any shape: quotes, a sign, digits and a character that
\* is no digit, in any order
IntRawTexts == TextsOver({Q, "-", "0", "7", "A"}, MaxLen + 1)

\* parse_signed or parse_unsigned on an input of any shape
ParseIntRaw ==
    /\ call.op = "none"
    /\ \E src \in IntRawTexts, w \in Widths, signed \in BOOLEAN :
        \E r \in {IF signed THEN parse_signed(src, w, overflow_checks)
                  ELSE parse_unsigned(src, w, overflow_checks)} :
            /\ call' = [op |-> "parse_int_raw", signed |-> signed, w |-> w, src |-> src]
            /\ de' = r
            /\ rv' = Returned(r)
            /\ UNCHANGED <<overflow_checks, backend, ormVars, rowVars>>

\* how an input handed to parse_bool may begin: the two literals, their
\* proper prefixes, other capitalisations, a leading space, quotes, the
\* integers a database stores for a boolean, nothing
BoolHeads ==
    {<<"t", "r", "u", "e">>, <<"f", "a", "l", "s", "e">>,
     <<"t", "r", "u">>, <<"f", "a", "l", "s">>, <<"t">>, <<"f">>,
     <<"T", "r", "u", "e">>, <<"T", "R", "U", "E">>, <<"F", "a", "l", "s", "e">>,
     <<"f", "a", "l", "s", "E">>,
     <<" ", "t", "r", "u", "e">>, <<" ", "f", "a", "l", "s", "e">>,
     <<Q, "t", "r", "u", "e", Q>>, <<"1">>, <<"0">>, <<"n", "u", "l", "l">>, <<>>}

\* what follows the beginning
BoolRests == {<<>>, <<",">>, <<"}">>, <<"e">>, <<" ">>, <<"t", "r", "u", "e">>}

\* parse_bool on an input of any shape
ParseBoolRaw ==
    /\ call.op = "none"
    /\ \E head \in BoolHeads, rest \in BoolRests :
        \E r \in {parse_bool(head \o rest)} :
            /\ call' = [op |-> "parse_bool_raw", src |-> head \o rest]
            /\ de' = r
            /\ rv' = Returned(r)
            /\ UNCHANGED <<overflow_checks, backend, ormVars, rowVars>>

\* the pieces a sequence text is made of: the brackets, the comma and two
\* elements
MaxTokens == 5
LB == <<"[">>
RB == <<"]">>
COMMA == <<",">>
SeqElements == {<<Q, "1", Q>>, <<Q, "2", Q>>}
SeqTokens == {LB, RB, COMMA} \cup SeqElements

RECURSIVE TokenRuns(_)
\* every run of at most n pieces
TokenRuns(n) ==
    IF n = 0 THEN {<<>>}
    ELSE LET longer(runs) == runs \cup {Append(r, tok) : r \in runs, tok \in SeqTokens}
         IN  longer(TokenRuns(n - 1))

RECURSIVE TokensText(_)
\* the text of a run of pieces
TokensText(toks) == IF toks = <<>> THEN <<>> ELSE Head(toks) \o TokensText(Tail(toks))

\* Vec::<u8>::deserialize on a text made of any run of pieces
DeserializeSeq ==
    /\ call.op = "none"
    /\ \E toks \in TokenRuns(MaxTokens) :
        \E src \in {TokensText(toks)} :
            \E r \in {deserialize_seq(TSeq(TUint(8)), src, overflow_checks)} :
                /\ call' = [op |-> "deserialize_seq", toks |-> toks, src |-> src]
                /\ de' = r
                /\ rv' = Returned(r)
                /\ UNCHANGED <<overflow_checks, backend, ormVars, rowVars>>

\* the shapes an optional value wraps
InnerTypes == {TString, TBool, TUint(8), TInt(16), TSeq(TUint(8))}

\* Option::<T>::deserialize on a text of any shape
DeserializeOption ==
    /\ call.op = "none"
    /\ \E ty \in InnerTypes, text \in AnyTexts, rest \in Rests :
        \E r \in {deserialize_option(TOption(ty), text \o rest, overflow_checks)} :
            /\ call' = [op |-> "deserialize_option", ty |-> ty, src |-> text \o rest]
            /\ de' = r
            /\ rv' = Returned(r)
            /\ UNCHANGED <<overflow_checks, backend, ormVars, rowVars>>

DeNext ==
    \/ ParseString
    \/ ParseSigned
    \/ ParseUnsigned
    \/ FromStrRecord
    \/ ReconstructRow
    \/ FromStrText
    \/ FromStrEnum
    \/ DeserializeAny
    \/ ReconstructFlagRow
    \/ ParseStringRaw
    \/ FromStrPrefix
    \/ ParseIntRaw
    \/ ParseBoolRaw
    \/ DeserializeSeq
    \/ DeserializeOption

DeSpec == Init /\ [][DeNext]_vars

----------------------------------------------------------------------------
(* The SQLite backend: the statements the ORM builds and what the database *)
(* answers. Table `user` is (id INTEGER PRIMARY KEY AUTOINCREMENT, name    *)
(* TEXT, age INTEGER); a database row is [id, name, age] with name and age *)
(* None for NULL.                                                          *)

NoConnection == [ok |-> FALSE, err |-> "NoConnection"]

\* ORM::add: the insert statement of a record; the id is left to the database
add(rec) == [stmt |-> "insert", name |-> rec[2], age |-> Some(rec[3])]

\* TableSerialize::get_id as derived: self.id
get_id(rec) == rec[1]

\* a variant that keeps the trait's default get_id, which answers 0
remove_default_id(rec) == [stmt |-> "delete", id |-> 0]

\* ORM::remove: delete from user where id = {id}
remove(rec) == [stmt |-> "delete", id |-> get_id(rec)]

\* ORM::modify: update user set {key = value, ..} where id = {id}; the SET
\* clause is the key-value text of the record without its braces, taken here
\* to give every field of the record the record's value
modify(rec) == [stmt |-> "update", id |-> get_id(rec), name |-> rec[2], age |-> Some(rec[3])]

\* ORM::find_one: select * from user where id = {id}
find_one(id) == [kind |-> "id", id |-> id]

\* ORM::find_all: select * from user
find_all == [kind |-> "all"]

\* ORM::find_many with the where clause `id > {id}`
find_many(id) == [kind |-> "id_gt", id |-> id]

Matches(where, r) ==
    CASE where.kind = "all" -> TRUE
      [] where.kind = "id" -> r.id = where.id
      [] where.kind = "id_gt" -> r.id > where.id

\* conn.execute of an insert, update or delete statement: the table, the
\* AUTOINCREMENT sequence and last_insert_rowid afterwards, and the number
\* of rows affected
execute(tbl, sq, rid, stmt) ==
    IF stmt.stmt = "insert"
    THEN [table |-> Append(tbl, [id |-> sq + 1, name |-> stmt.name, age |-> stmt.age]),
          seq |-> sq + 1, rowid |-> sq + 1, affected |-> 1]
    ELSE IF stmt.stmt = "update"
    THEN [table |-> [i \in DOMAIN tbl |->
                        IF tbl[i].id = stmt.id
                        THEN [id |-> stmt.id, name |-> stmt.name, age |-> stmt.age]
                        ELSE tbl[i]],
          seq |-> sq, rowid |-> rid,
          affected |-> Cardinality({i \in DOMAIN tbl : tbl[i].id = stmt.id})]
    ELSE LET keep(r) == r.id # stmt.id
         IN  [table |-> SelectSeq(tbl, keep), seq |-> sq, rowid |-> rid,
              affected |-> Len(tbl) - Len(SelectSeq(tbl, keep))]

\* the query_map closure of exec: a column is set from its i32 reading, then
\* from its String reading; a NULL column gives neither and stays unset
sqlite_row(r) ==
    LET r0 == Row_set(Row_new, 0, Some(to_string(r.id)))
        r1 == IF r.name.some THEN Row_set(r0, 1, Some(r.name.v)) ELSE r0
    IN  IF r.age.some THEN Row_set(r1, 2, Some(to_string(r.age.v))) ELSE r1

\* QueryBuilder<Vec<Row>>::exec
exec(c, tbl, where) ==
    IF ~c THEN NoConnection
    ELSE LET keep(r) == Matches(where, r)
             sel == SelectSeq(tbl, keep)
         IN  [ok |-> TRUE, val |-> [i \in 1..Len(sel) |-> sqlite_row(sel[i])]]

\* QueryBuilder<usize>::run and ::exec
run_update(c, tbl, sq, rid, stmt) ==
    IF ~c THEN [res |-> NoConnection, table |-> tbl, seq |-> sq, rowid |-> rid]
    ELSE LET with_e(e) == [res |-> [ok |-> TRUE, val |-> e.affected],
                           table |-> e.table, seq |-> e.seq, rowid |-> e.rowid]
         IN  with_e(execute(tbl, sq, rid, stmt))

RECURSIVE concat(_)
concat(seqs) == IF seqs = <<>> THEN <<>> ELSE Head(seqs) \o concat(Tail(seqs))

\* the entries pushed for one row: "column":value for every declared field
column_str(columns, row) ==
    [i \in DOMAIN columns |->
        <<Q>> \o columns[i] \o <<Q, ":">>
        \o (IF Row_get(row, i - 1).some
            THEN <<Q>> \o escape_json(Row_get(row, i - 1).v) \o <<Q>>
            ELSE NULL)]

\* a variant without the early return for an empty result
run_one_always_decodes(ty, rows, checks) ==
    IF ~rows.ok THEN [res |-> rows, decoded |-> 0]
    ELSE LET with_user(user) ==
                 IF user.ok THEN [res |-> [ok |-> TRUE, val |-> Some(user.val)], decoded |-> 1]
                 ELSE [res |-> [ok |-> FALSE, err |-> Panic], decoded |-> 1]
             with_column_str(entries) ==
                 with_user(from_str(ty, <<"{">> \o join(entries, <<",">>) \o <<"}">>, checks))
         IN  with_column_str(concat([i \in DOMAIN rows.val |->
                                        column_str(fields(ty), rows.val[i])]))

\* QueryBuilder<Option<T>>::run on the rows exec returned: the result and
\* the number of calls of the deserializer. The entries of every retrieved
\* row go into one object, and a decode error is unwrapped
run_one(ty, rows, checks) ==
    IF ~rows.ok THEN [res |-> rows, decoded |-> 0]
    ELSE IF Len(rows.val) = 0 THEN [res |-> [ok |-> TRUE, val |-> None], decoded |-> 0]
    ELSE LET with_user(user) ==
                 IF user.ok THEN [res |-> [ok |-> TRUE, val |-> Some(user.val)], decoded |-> 1]
                 ELSE [res |-> [ok |-> FALSE, err |-> Panic], decoded |-> 1]
             with_column_str(entries) ==
                 with_user(from_str(ty, <<"{">> \o join(entries, <<",">>) \o <<"}">>, checks))
         IN  with_column_str(concat([i \in DOMAIN rows.val |->
                                        column_str(fields(ty), rows.val[i])]))

RECURSIVE run_many_skipping(_, _, _, _, _)
\* a variant that drops a row that does not decode and goes on
run_many_skipping(ty, rows, result, decoded, checks) ==
    IF rows = <<>> THEN [res |-> [ok |-> TRUE, val |-> result], decoded |-> decoded]
    ELSE LET with_user_result(user_result) ==
                 IF user_result.ok
                 THEN run_many_skipping(ty, Tail(rows), Append(result, user_result.val),
                                        decoded + 1, checks)
                 ELSE run_many_skipping(ty, Tail(rows), result, decoded + 1, checks)
         IN  with_user_result(from_str(ty, user_str(fields(ty), Head(rows)), checks))

RECURSIVE run_rows(_, _, _, _, _)
\* the loop of QueryBuilder<Vec<T>>::run over the retrieved rows
run_rows(ty, rows, result, decoded, checks) ==
    IF rows = <<>> THEN [res |-> [ok |-> TRUE, val |-> result], decoded |-> decoded]
    ELSE LET with_user_result(user_result) ==
                 IF user_result.ok
                 THEN run_rows(ty, Tail(rows), Append(result, user_result.val),
                               decoded + 1, checks)
                 ELSE IF user_result.err = Panic
                 THEN [res |-> [ok |-> FALSE, err |-> Panic], decoded |-> decoded + 1]
                 ELSE [res |-> [ok |-> FALSE, err |-> "Unknown"], decoded |-> decoded + 1]
         IN  with_user_result(from_str(ty, user_str(fields(ty), Head(rows)), checks))

\* QueryBuilder<Vec<T>>::run on the rows exec returned
run_many(ty, rows, checks) ==
    IF ~rows.ok THEN [res |-> rows, decoded |-> 0]
    ELSE run_rows(ty, rows.val, <<>>, 0, checks)

\* QueryBuilder<T, T>::apply, the block that holds the guard of the
\* connection: the NoConnection check, the insert and the read of
\* last_insert_rowid, kept in r
apply_insert(c, tbl, sq, rid, stmt) ==
    IF ~c THEN [returns |-> TRUE, res |-> NoConnection, table |-> tbl, seq |-> sq, rowid |-> rid]
    ELSE LET with_e(e) ==
                 [returns |-> FALSE, r |-> e.rowid, inserted |-> e.seq,
                  table |-> e.table, seq |-> e.seq, rowid |-> e.rowid]
         IN  with_e(execute(tbl, sq, rid, stmt))

\* QueryBuilder<T, T>::apply after that block: find_many("rowid = {r}").run(),
\* which takes the lock of the connection again, and the first record found
apply_select(c, tbl, r, checks) ==
    LET with_rows(rows) ==
            IF ~rows.ok THEN rows
            ELSE IF Len(rows.val) = 0 THEN [ok |-> FALSE, err |-> "InsertError"]
            ELSE [ok |-> TRUE, val |-> rows.val[1]]
    IN  with_rows(run_many(UserT, exec(c, tbl, find_one(r)), checks).res)

----------------------------------------------------------------------------
(* The ORM specification: the calls of the callers of one ORM *)

\* the names given to add: one that needs escaping
NameValues == {Some(<<Q>>)}
AgeValue == 30
Ids == 0..MaxRows

\* a lock() that resolves without waiting for the guard to be dropped
lock_unguarded(l) == TRUE

\* a lock() that any caller passes, whoever holds the guard
lock_shared(l) == l \in {0} \cup Callers

\* Mutex::lock().await resolves only while nobody holds the guard
lock_free(l) == l = 0

\* the callers that are in no call
Idle == {p \in Callers : pc[p] = "idle"}

\* add(User { id: 0, name, age }).apply() is called and runs the block that
\* holds the guard: on a closed ORM it returns, on an open one the row is
\* inserted and the call goes on to ask for the lock again
AddApply ==
    /\ seq < MaxRows
    /\ \E p \in Idle, name \in NameValues :
        /\ \A q \in Idle : p <= q
        /\ \E a \in {apply_insert(conn, table, seq, rowid, add(<<0, name, AgeValue>>))} :
            /\ table' = a.table
            /\ seq' = a.seq
            /\ rowid' = a.rowid
            /\ removed' = IF conn THEN removed \ {a.rowid} ELSE removed
            /\ IF a.returns
               THEN /\ ret' = [op |-> "apply", res |-> a.res]
                    /\ UNCHANGED <<pc, job>>
               ELSE /\ ret' = [op |-> "none"]
                    /\ job' = [job EXCEPT ![p] = [op |-> "apply", phase |-> "select",
                                                  inserted |-> a.inserted, r |-> a.r]]
                    /\ pc' = [pc EXCEPT ![p] = "lock"]
    /\ UNCHANGED <<overflow_checks, backend, conn, returned, conn_lock, deVars, changeVars, countVars, rowVars>>

\* the re-select of an apply whose insert was executed: other calls may have
\* run since the guard was dropped. The call returns what the select gives.
ApplySelect(p) ==
    /\ pc[p] = "lock"
    /\ job[p].op = "apply"
    /\ job[p].phase = "select"
    /\ lock_free(conn_lock)
    /\ \E res \in {apply_select(conn, table, job[p].r, overflow_checks)} :
        /\ returned' = IF res.ok THEN returned \cup {res.val[1]} ELSE returned
        /\ ret' = [op |-> "apply", res |-> res]
    /\ job' = [job EXCEPT ![p] = [op |-> "none"]]
    /\ pc' = [pc EXCEPT ![p] = "idle"]
    /\ UNCHANGED <<overflow_checks, backend, conn, table, seq, rowid, removed, conn_lock, deVars, changeVars, countVars, rowVars>>

\* query_update("insert into user (name) values (NULL)").exec(): a row
\* whose age is NULL
RawInsert ==
    /\ seq < MaxRows
    /\ LET with_u(u) ==
               /\ table' = u.table
               /\ seq' = u.seq
               /\ rowid' = u.rowid
               /\ removed' = IF conn THEN removed \ {u.rowid} ELSE removed
               /\ ret' = [op |-> "exec", res |-> u.res]
               /\ UNCHANGED <<overflow_checks, backend, conn, returned, deVars, changeVars, concVars, rowVars>>
       IN  with_u(run_update(conn, table, seq, rowid,
                             [stmt |-> "insert", name |-> None, age |-> None]))

\* remove(User { id, .. }).run()
Remove ==
    \E id \in Ids :
        \E u \in {run_update(conn, table, seq, rowid, remove(<<id, None, AgeValue>>))} :
            /\ table' = u.table
            /\ removed' = IF u.res.ok THEN removed \cup {id} ELSE removed
            /\ ret' = [op |-> "remove", id |-> id, res |-> u.res]
            /\ UNCHANGED <<overflow_checks, backend, conn, seq, rowid, returned, deVars, changeVars, concVars, rowVars>>

\* the name given to modify: one that needs no escaping
ModifyNames == {Some(<<"x">>)}

\* the id given to modify: the first one given out, which no row has before
\* the first insert and after its row was removed
ModifyIds == {1}

\* modify(User { id, name, age }).run()
Modify ==
    \E id \in ModifyIds, name \in ModifyNames :
        \E u \in {run_update(conn, table, seq, rowid, modify(<<id, name, AgeValue>>))} :
            /\ table' = u.table
            /\ ret' = [op |-> "modify", id |-> id, res |-> u.res]
            /\ UNCHANGED <<overflow_checks, backend, conn, seq, rowid, returned, removed, deVars, changeVars, concVars, rowVars>>

\* find_one::<User>(id).run()
FindOne ==
    \E id \in Ids :
        \E r \in {run_one(UserT, exec(conn, table, find_one(id)), overflow_checks)} :
            /\ ret' = [op |-> "find_one", id |-> id, res |-> r.res, decoded |-> r.decoded]
            /\ UNCHANGED <<overflow_checks, backend, conn, table, seq, rowid, returned, removed, deVars, changeVars, concVars, rowVars>>

\* find_all::<User>().run()
FindAll ==
    \E r \in {run_many(UserT, exec(conn, table, find_all), overflow_checks)} :
        /\ ret' = [op |-> "find_many", where |-> find_all, res |-> r.res, decoded |-> r.decoded]
        /\ UNCHANGED <<overflow_checks, backend, conn, table, seq, rowid, returned, removed, deVars, changeVars, concVars, rowVars>>

\* find_many::<User>("id > {id}").run()
FindMany ==
    \E id \in Ids :
        \E r \in {run_many(UserT, exec(conn, table, find_many(id)), overflow_checks)} :
            /\ ret' = [op |-> "find_many", where |-> find_many(id), res |-> r.res,
                       decoded |-> r.decoded]
            /\ UNCHANGED <<overflow_checks, backend, conn, table, seq, rowid, returned, removed, deVars, changeVars, concVars, rowVars>>

\* close(): the connection is taken out of the slot, then closed; the
\* backend's close may fail
Close ==
    \E fails \in BOOLEAN :
        /\ conn' = FALSE
        /\ ret' = [op |-> "close",
                   res |-> IF ~conn THEN NoConnection
                           ELSE IF fails THEN [ok |-> FALSE, err |-> "RusqliteError"]
                           ELSE [ok |-> TRUE, val |-> <<>>]]
        /\ UNCHANGED <<overflow_checks, backend, table, seq, rowid, returned, removed, deVars, changeVars, concVars, rowVars>>

\* the rows of a table `user` whose id column is not a key, all with id 1
KeylessRows == {[id |-> 1, name |-> name, age |-> Some(AgeValue)] : name \in NameValues \cup {None}}

RECURSIVE SeqsUpTo(_, _)
\* the sequences over S of length 1..n
SeqsUpTo(S, n) ==
    IF n = 0 THEN {}
    ELSE {<<x>> : x \in S} \cup {Append(q, x) : q \in SeqsUpTo(S, n - 1), x \in S}

\* find_one::<User>(1).run() on a table `user` whose id column is not a key:
\* the select retrieves every row with that id. That table is explored on
\* its own, while the keyed table is untouched
FindOneKeyless ==
    /\ seq = 0
    /\ \E found \in SeqsUpTo(KeylessRows, MaxFound) :
        \E r \in {run_one(UserT,
                          IF conn
                          THEN [ok |-> TRUE, val |-> [i \in DOMAIN found |-> sqlite_row(found[i])]]
                          ELSE NoConnection,
                          overflow_checks)} :
            /\ ret' = [op |-> "find_one_keyless", found |-> found, res |-> r.res,
                       decoded |-> r.decoded]
            /\ UNCHANGED <<overflow_checks, backend, conn, table, seq, rowid, returned, removed, deVars,
                           changeVars, concVars, rowVars>>

\* the calls of one ORM by its callers: a call that takes the lock of the
\* connection once is one step, apply is two, and the steps of the callers
\* follow each other in any order
OrmNext ==
    \/ AddApply
    \/ \E p \in Callers : ApplySelect(p)
    \/ Idle # {} /\ RawInsert
    \/ Idle # {} /\ Remove
    \/ Idle # {} /\ Modify
    \/ Idle # {} /\ FindOne
    \/ Idle # {} /\ FindAll
    \/ Idle # {} /\ FindMany
    \/ Idle # {} /\ FindOneKeyless
    \/ Idle # {} /\ Close

OrmSpec == Init /\ [][OrmNext]_vars

----------------------------------------------------------------------------
(* Claims *)

\* C1: decoding with from_str the key-value wire text of a record of signed
\* integers, strings and unsigned integers yields that record.
\* Stated as the claim states it; the minimum of a signed type refutes it
\* in a build that checks arithmetic overflow.
C1_RoundTrip ==
    call.op = "from_str_record" => rv.ok /\ rv.val = call.rec

\* C2: parse_string applied to '"' + escape_json(v) + '"' + rest returns
\* exactly v and leaves the cursor equal to rest.
C2_EscapeThenParseIsIdentity ==
    call.op = "parse_string" => de.ok /\ de.val = call.v /\ de.input = call.rest

\* a value with a backslash directly before a double quote has been decoded
C2_Witness ==
    /\ call.op = "parse_string"
    /\ call.v = <<BS, Q, "n">>
    /\ call.rest = <<Q, "a">>
    /\ de.ok

RECURSIVE DecimalValue(_)
\* the number a digit run denotes, by place value
DecimalValue(ds) ==
    IF ds = <<>> THEN 0
    ELSE (IndexOf(Digits, Head(ds)) - 1) * 10 ^ (Len(ds) - 1) + DecimalValue(Tail(ds))

\* C4: parse_signed on a quoted digit run with an optional leading '-'
\* returns sign * value for every input whose magnitude fits the target
\* type and leaves the cursor just past the closing quote; parse_unsigned
\* does the same without a sign.
C4_IntegerDecode ==
    /\ call.op = "parse_signed" /\ DecimalValue(call.ds) <= 2 ^ (call.w - 1) - 1
       => /\ de.ok
          /\ de.val = (IF call.neg THEN -1 ELSE 1) * DecimalValue(call.ds)
          /\ de.input = call.rest
    /\ call.op = "parse_unsigned" /\ DecimalValue(call.ds) <= 2 ^ call.w - 1
       => /\ de.ok
          /\ de.val = DecimalValue(call.ds)
          /\ de.input = call.rest

\* the wire value "-222" has been decoded to -222 as a 16-bit integer
C4_Witness ==
    /\ call.op = "parse_signed"
    /\ call.w = 16
    /\ call.neg
    /\ call.ds = <<"2", "2", "2">>
    /\ de.ok
    /\ de.val = -222

\* C3: in row reconstruction followed by decode, an optional string field
\* decodes to None exactly when its column is absent from the Row; a present
\* column is decoded to Some of its text, the text null included. A row
\* whose other columns are present does decode.
C3_AbsentIffNone ==
    call.op = "from_str_row" =>
        /\ (Row_get(call.row, 0).some /\ Row_get(call.row, 2).some) => rv.ok
        /\ rv.ok => /\ rv.val[2] = None <=> ~Row_get(call.row, 1).some
                    /\ Row_get(call.row, 1).some => rv.val[2] = Row_get(call.row, 1)

\* a row whose name column holds the text null has been decoded to Some("null")
C3_Witness ==
    /\ call.op = "from_str_row"
    /\ Row_get(call.row, 1) = Some(NULL)
    /\ rv.ok
    /\ rv.val[2] = Some(NULL)

C5_WellFormed(t) == t.lead = <<>> /\ t.trail = <<>> /\ t.close = <<"}">> /\ t.tail = <<>>

\* C5: in struct decode every entry except the first must be preceded by
\* exactly one comma: two entries separated by a comma decode both fields,
\* a second entry not preceded by a comma fails with ExpectedMapComma, a
\* second comma or a comma directly before the closing brace fails in the
\* decode of the next key, and a failing decode returns no record.
C5_CommaBetweenEntries ==
    call.op = "from_str_text" =>
        LET t == call.text
        IN  /\ (C5_WellFormed(t) /\ t.sep = <<",">> /\ t.entries = <<EntryA, EntryB>>)
               => rv.ok /\ rv.val = <<1, 2>>
            /\ (t.lead = <<>> /\ Len(t.entries) = 2 /\ t.sep \in {<<>>, <<":">>})
               => ~rv.ok /\ rv.err = "ExpectedMapComma"
            /\ (t.lead = <<>> /\ Len(t.entries) = 2 /\ t.sep = <<",", ",">>)
               => ~rv.ok /\ rv.err = "ExpectedString"
            /\ (t.lead = <<>> /\ t.entries = <<EntryA, EntryB>> /\ t.sep = <<",">>
                /\ t.trail = <<",">> /\ t.close = <<"}">>)
               => ~rv.ok /\ rv.err = "ExpectedString" /\ de.input = t.tail
            /\ ~rv.ok => "val" \notin DOMAIN rv

\* the object {"a":"1""b":"2"} has failed with ExpectedMapComma
C5_Witness ==
    /\ call.op = "from_str_text"
    /\ call.src = <<"{">> \o EntryA \o EntryB \o <<"}">>
    /\ rv = [ok |-> FALSE, err |-> "ExpectedMapComma"]

\* C6, as claimed: enum decode of malformed input, the bare empty object {}
\* as well as input beginning with a bare number, fails with ExpectedEnum.
C6_MalformedIsExpectedEnum ==
    (call.op = "from_str_enum"
     /\ (call.src = <<"{", "}">> \/ (call.src # <<>> /\ Head(call.src) \in Range(Digits))))
    => ~rv.ok /\ rv.err = "ExpectedEnum"

\* C6, amended: input whose first character is neither a double quote nor
\* an opening brace fails with ExpectedEnum, and the empty object {} fails
\* with ExpectedString, raised by the decode of the variant name.
C6_ExpectedEnumOnlyBeforeBrace ==
    call.op = "from_str_enum" =>
        /\ (call.src # <<>> /\ Head(call.src) \notin {Q, "{"})
           => ~rv.ok /\ rv.err = "ExpectedEnum"
        /\ call.src = <<"{", "}">> => ~rv.ok /\ rv.err = "ExpectedString"
        /\ (~rv.ok /\ rv.err = "ExpectedEnum")
           => call.src # <<>> /\ Head(call.src) \notin {Q, "{"}

\* a bare number has failed with ExpectedEnum
C6_Witness ==
    /\ call.op = "from_str_enum"
    /\ call.src = <<"5">>
    /\ rv = [ok |-> FALSE, err |-> "ExpectedEnum"]

FromStrOps == {"from_str_record", "from_str_row", "from_str_text", "from_str_enum"}

\* C9: from_str returns Ok(value) only if the top-level decode succeeded
\* and left the cursor empty; if the decode succeeded and content remains,
\* it returns TrailingCharacters and no value.
C9_OkOnlyWithEmptyCursor ==
    call.op \in FromStrOps =>
        /\ rv.ok => de.ok /\ de.input = <<>> /\ rv.val = de.val
        /\ (de.ok /\ de.input # <<>>)
           => rv = [ok |-> FALSE, err |-> "TrailingCharacters"]

\* a well-formed object followed by one more character has been refused
C9_Witness ==
    /\ call.op = "from_str_text"
    /\ call.src = <<"{">> \o EntryA \o <<",">> \o EntryB \o <<"}", "x">>
    /\ de.ok
    /\ de.input = <<"x">>
    /\ rv = [ok |-> FALSE, err |-> "TrailingCharacters"]

----------------------------------------------------------------------------
(* The rows a where clause selects, and the record each one stands for *)

Selected(where) == LET keep(r) == Matches(where, r) IN SelectSeq(table, keep)

\* a row of `user` decodes as User exactly when its age is not NULL
Decodable(r) == r.age.some

RecordOf(r) == <<r.id, r.name, r.age.v>>

Undecodable(rows) == {i \in DOMAIN rows : ~Decodable(rows[i])}

Min(S) == CHOOSE x \in S : \A y \in S : x <= y

\* C7: the find-by-id run answers Ok(None) whenever the query retrieves no
\* row, without a call of the deserializer and without an error, and it
\* answers Ok(Some(_)) only when at least one row was retrieved.
C7_EmptyResultIsNone ==
    ret.op = "find_one" =>
        LET n == Len(Selected(find_one(ret.id)))
        IN  /\ (conn /\ n = 0) => (ret.res = [ok |-> TRUE, val |-> None] /\ ret.decoded = 0)
            /\ (ret.res.ok /\ ret.res.val.some) => n >= 1

C7_Witness ==
    /\ ret.op = "find_one"
    /\ conn
    /\ table # <<>>
    /\ Selected(find_one(ret.id)) = <<>>
    /\ ret.res = [ok |-> TRUE, val |-> None]

\* C8: after add(r).apply() returned r' and remove(r').run() deleted it, a
\* find_one(r'.id).run() on the still open connection answers Ok(None),
\* unless a later insert has used the id again.
C8_RemovedIsNotFound ==
    (ret.op = "find_one" /\ conn /\ ret.id \in removed) =>
        ret.res = [ok |-> TRUE, val |-> None]

C8_Witness ==
    /\ ret.op = "find_one"
    /\ conn
    /\ ret.id \in returned
    /\ ret.id \in removed
    /\ table # <<>>
    /\ ret.res = [ok |-> TRUE, val |-> None]

\* C10: in the multi-row run, when the k-th retrieved row does not decode
\* the call answers Err(Unknown) with no record at all and has processed
\* exactly k rows; it answers Ok(list) only when every retrieved row
\* decoded, and then the list holds one record per row in row order.
C10_AbortOnFirstFailure ==
    (ret.op = "find_many" /\ conn) =>
        LET rows == Selected(ret.where)
        IN  IF Undecodable(rows) # {}
            THEN /\ ret.res = [ok |-> FALSE, err |-> "Unknown"]
                 /\ ret.decoded = Min(Undecodable(rows))
            ELSE /\ ret.res.ok
                 /\ Len(ret.res.val) = Len(rows)
                 /\ \A i \in DOMAIN rows : ret.res.val[i] = RecordOf(rows[i])

C10_Witness ==
    /\ ret.op = "find_many"
    /\ conn
    /\ ret.res = [ok |-> FALSE, err |-> "Unknown"]
    /\ ret.decoded >= 1
    /\ ret.decoded < Len(Selected(ret.where))

----------------------------------------------------------------------------
(* Row reconstruction: the text built for one row *)

\* one-based positions at which pat occurs in s
Occurrences(s, pat) ==
    {i \in 1..(Len(s) - Len(pat) + 1) : SubSeq(s, i, i + Len(pat) - 1) = pat}

\* the text of the key of the i-th declared field, with its colon
KeyText(columns, i) == <<Q>> \o columns[i] \o <<Q, ":">>

\* C11: the object rebuilt for a row holds every declared field name once,
\* in declaration order; the i-th field is followed by the value of column
\* i (zero-based), a quoted string when the column is present and bare null
\* when it is absent, and an absent column does not shift the later fields:
\* the record decoded from the text has each field from its own column.
C11_FieldsPairedWithColumns ==
    call.op = "from_str_row" =>
        LET columns == fields(UserT)
            at(i) == Occurrences(call.src, KeyText(columns, i))
            pos(i) == CHOOSE p \in at(i) : TRUE
            present(i) == (i - 1) \in DOMAIN call.row /\ call.row[i - 1].some
        IN  /\ \A i \in DOMAIN columns : Cardinality(at(i)) = 1
            /\ \A i, j \in DOMAIN columns : i < j => pos(i) < pos(j)
            /\ \A i \in DOMAIN columns :
                 call.src[pos(i) + Len(KeyText(columns, i))] = (IF present(i) THEN Q ELSE "n")
            /\ (present(1) /\ present(3)) =>
                 /\ rv.ok
                 /\ rv.val[1] = 1
                 /\ rv.val[2] = (IF present(2) THEN Some(call.row[1].v) ELSE None)
                 /\ rv.val[3] = 30

C11_Witness ==
    /\ call.op = "from_str_row"
    /\ DOMAIN call.row = {0, 2}
    /\ rv = [ok |-> TRUE, val |-> <<1, None, 30>>]


----------------------------------------------------------------------------
(* Life cycle of an ORM instance: connect, init, change, close *)

\* last_insert_rowid without the check of the slot
last_insert_rowid_unchecked(c, rid) ==
    [ok |-> TRUE, val |-> rid]

\* ORM::last_insert_rowid
last_insert_rowid(c, rid) ==
    IF ~c THEN NoConnection ELSE [ok |-> TRUE, val |-> rid]

\* ORM::init: the script file is read first, then run as one update query
init(c, readable, fails) ==
    IF ~readable THEN [ok |-> FALSE, err |-> "StdError"]
    ELSE IF ~c THEN NoConnection
    ELSE IF fails THEN [ok |-> FALSE, err |-> "RusqliteError"]
    ELSE [ok |-> TRUE, val |-> <<>>]

\* "CREATE TABLE ormlib_last_change (...)": its result is dropped
create_last_change(c, lc) ==
    IF c /\ ~lc.exists THEN [exists |-> TRUE, rows |-> <<>>] ELSE lc

\* "update ormlib_last_change set last = {change_count}": every row is set
update_last(lc, n) ==
    [exists |-> TRUE, rows |-> [i \in 1..Len(lc.rows) |-> n]]

\* "insert into ormlib_last_change (last) values (0)": the statement itself,
\* which adds a row whatever the table holds
insert_row_last(lc) == [exists |-> TRUE, rows |-> Append(lc.rows, 0)]

\* what change keeps of a statement that returned NoConnection: the results
\* of the CREATE TABLE and of the insert are dropped (`let _ =`), the other
\* three statements return the error through `?`
change_no_connection(j) ==
    CASE j.phase = "create" -> [j EXCEPT !.phase = "created"]
      [] j.phase = "insert_last" -> [j EXCEPT !.phase = "inserted_last"]
      [] OTHER -> [op |-> "change", phase |-> "return", k |-> j.k, res |-> NoConnection]

\* the outcome of the statement change has in progress: the bookkeeping
\* table afterwards, whether the update query was executed, and what the
\* caller keeps
change_statement(j, lc, rid, fails) ==
    CASE j.phase = "create" ->
            [last_change |-> create_last_change(TRUE, lc), rowid |-> rid, executed |-> FALSE,
             job |-> [j EXCEPT !.phase = "created"]]
      [] j.phase = "select_last" ->
            [last_change |-> lc, rowid |-> rid, executed |-> FALSE,
             job |-> IF lc.exists
                     THEN [op |-> "change", phase |-> "selected_last", k |-> j.k, rows |-> lc.rows]
                     ELSE [op |-> "change", phase |-> "return", k |-> j.k,
                           res |-> [ok |-> FALSE, err |-> "RusqliteError"]]]
      [] j.phase = "insert_last" ->
            [last_change |-> insert_row_last(lc), rowid |-> Len(lc.rows) + 1, executed |-> FALSE,
             job |-> [j EXCEPT !.phase = "inserted_last"]]
      [] j.phase = "update" ->
            [last_change |-> lc, rowid |-> rid, executed |-> ~fails,
             job |-> IF fails
                     THEN [op |-> "change", phase |-> "return", k |-> j.k,
                           res |-> [ok |-> FALSE, err |-> "RusqliteError"]]
                     ELSE [j EXCEPT !.phase = "updated"]]
      [] j.phase = "set_last" ->
            [last_change |-> update_last(lc, j.count), rowid |-> rid, executed |-> FALSE,
             job |-> [op |-> "change", phase |-> "return", k |-> j.k,
                      res |-> [ok |-> TRUE, val |-> <<>>]]]

\* where change goes once exec() has dropped the guard of the connection:
\* `last` is column 1 of the first row read, or 0 after the insert
change_continue(j) ==
    CASE j.phase = "created" -> [pc |-> "lock", job |-> [j EXCEPT !.phase = "select_last"]]
      [] j.phase = "selected_last" ->
            IF Len(j.rows) = 0
            THEN [pc |-> "lock", job |-> [op |-> "change", phase |-> "insert_last", k |-> j.k]]
            ELSE [pc |-> "count",
                  job |-> [op |-> "change", phase |-> "count", k |-> j.k, last |-> j.rows[1]]]
      [] j.phase = "inserted_last" ->
            [pc |-> "count", job |-> [op |-> "change", phase |-> "count", k |-> j.k, last |-> 0]]
      [] j.phase = "updated" -> [pc |-> "lock", job |-> [j EXCEPT !.phase = "set_last"]]
      [] OTHER -> [pc |-> "done", job |-> j]

\* one statement of change from the lock of the connection to its release:
\* the NoConnection check of exec(), the statement, and where change goes next
change_exec(j, c, lc, rid, fails) ==
    LET with_s(s) ==
            [last_change |-> s.last_change, rowid |-> s.rowid, executed |-> s.executed,
             next |-> change_continue(s.job)]
    IN  with_s(IF c THEN change_statement(j, lc, rid, fails)
               ELSE [last_change |-> lc, rowid |-> rid, executed |-> FALSE,
                     job |-> change_no_connection(j)])

\* conn.last_insert_rowid()
LastInsertRowid ==
    /\ ret' = [op |-> "last_insert_rowid", res |-> last_insert_rowid(conn, rowid)]
    /\ UNCHANGED <<overflow_checks, backend, conn, table, seq, rowid, returned, removed, deVars, changeVars, concVars, rowVars>>

\* conn.init(script): the script creates the tables if they are missing
InitScript ==
    \E readable \in BOOLEAN, fails \in BOOLEAN :
        /\ ret' = [op |-> "init", readable |-> readable, res |-> init(conn, readable, fails)]
        /\ UNCHANGED <<overflow_checks, backend, conn, table, seq, rowid, returned, removed, deVars, changeVars, concVars, rowVars>>

\* conn.change(q[calls + 1]) is called, by the caller who walks through the
\* sequence in order, and sends its CREATE TABLE; the call goes on to its
\* select
Change ==
    /\ calls < MaxChanges
    /\ \A k \in 1..MaxChanges : applied[k] < MaxApplied
    /\ \A q \in Callers : job[q].op # "change"
    /\ \E p \in Idle :
        /\ \A q \in Idle : p <= q
        /\ \E s \in {change_exec([op |-> "change", phase |-> "create", k |-> calls + 1],
                                 conn, last_change, rowid, FALSE)} :
            /\ last_change' = s.last_change
            /\ job' = [job EXCEPT ![p] = s.next.job]
            /\ pc' = [pc EXCEPT ![p] = s.next.pc]
    /\ calls' = calls + 1
    /\ ret' = [op |-> "none"]
    /\ UNCHANGED <<overflow_checks, backend, conn, table, seq, rowid, returned, removed, change_count,
                   applied, conn_lock, countVars, deVars, rowVars>>

\* what change returns with: `attempted` = its update query was sent to the
\* database, `executed` = the database executed it
change_returns(j, res, attempted, executed) ==
    [op |-> "change", k |-> j.k, res |-> res, attempted |-> attempted, executed |-> executed]

\* the next statement of a change in progress; other calls may have run since
\* the statement before. After a statement that ends the call, change
\* returns and drops its guard of change_count.
ChangeStatement(p) ==
    /\ pc[p] = "lock"
    /\ job[p].op = "change"
    /\ lock_free(conn_lock)
    /\ \E fails \in {f \in BOOLEAN : f => conn /\ job[p].phase = "update"} :
        \E s \in {change_exec(job[p], conn, last_change, rowid, fails)} :
            /\ last_change' = s.last_change
            /\ rowid' = s.rowid
            /\ applied' = IF s.executed THEN [applied EXCEPT ![job[p].k] = @ + 1] ELSE applied
            /\ IF s.next.pc = "done"
               THEN /\ ret' = change_returns(job[p], s.next.job.res,
                                             job[p].phase = "set_last"
                                                 \/ (conn /\ job[p].phase = "update"),
                                             job[p].phase = "set_last" \/ s.executed)
                    /\ job' = [job EXCEPT ![p] = [op |-> "none"]]
                    /\ pc' = [pc EXCEPT ![p] = "idle"]
                    /\ count_lock' = IF count_lock = p THEN 0 ELSE count_lock
               ELSE /\ ret' = [op |-> "none"]
                    /\ job' = [job EXCEPT ![p] = s.next.job]
                    /\ pc' = [pc EXCEPT ![p] = s.next.pc]
                    /\ count_lock' = count_lock
    /\ UNCHANGED <<overflow_checks, backend, conn, table, seq, returned, removed, change_count, calls,
                   conn_lock, change_calls, deVars, rowVars>>

\* a change in progress takes the lock of change_count, counts itself and
\* compares with the `last` it read: it goes on to its update query, or
\* returns Ok without one
ChangeCount(p) ==
    /\ pc[p] = "count"
    /\ job[p].op = "change"
    /\ lock_free(count_lock)
    /\ change_count' = change_count + 1
    /\ IF change_count + 1 > job[p].last
       THEN /\ job' = [job EXCEPT ![p] = [op |-> "change", phase |-> "update", k |-> @.k,
                                         count |-> change_count + 1]]
            /\ pc' = [pc EXCEPT ![p] = "lock"]
            /\ count_lock' = p
            /\ ret' = [op |-> "none"]
       ELSE /\ job' = [job EXCEPT ![p] = [op |-> "none"]]
            /\ pc' = [pc EXCEPT ![p] = "idle"]
            /\ count_lock' = count_lock
            /\ ret' = change_returns(job[p], [ok |-> TRUE, val |-> <<>>], FALSE, FALSE)
    /\ UNCHANGED <<overflow_checks, backend, conn, table, seq, rowid, returned, removed, last_change,
                   calls, applied, conn_lock, change_calls, deVars, rowVars>>

\* ORM::connect of the SQLite backend on the same database file: a fresh ORM
\* instance, on which the caller starts the sequence again. The model holds one instance: the new
\* one takes its place when no call on the old one is in progress.
Connect ==
    /\ Idle = Callers
    /\ backend' = "sqlite"
    /\ conn' = TRUE
    /\ change_count' = 0
    /\ calls' = 0
    /\ rowid' = 0
    /\ ret' = [op |-> "connect"]
    /\ UNCHANGED <<overflow_checks, table, seq, returned, removed, last_change, applied, deVars, concVars, rowVars>>

----------------------------------------------------------------------------
(* Concurrent callers sharing one ORM *)

\* the calls a caller may start
Jobs ==
    {[op |-> "exec", phase |-> "update", stmt |-> [stmt |-> "insert", name |-> None, age |-> None]],
     [op |-> "apply", phase |-> "insert", stmt |-> add(<<0, None, AgeValue>>)],
     [op |-> "close", phase |-> "close"]}
    \cup {[op |-> "run", phase |-> "update", stmt |-> remove(<<id, None, AgeValue>>)] :
              id \in 1..MaxConcRows}

Inserts(j) == j.op \in {"exec", "apply"} /\ j.phase \in {"update", "insert"}

\* inserts that callers have started and the database has not executed yet
PendingInserts == {p \in Callers : pc[p] \in {"lock", "locked", "running"} /\ Inserts(job[p])}

\* a caller starts a call: its first step is conn.lock().await
Call(p) ==
    /\ pc[p] = "idle"
    /\ \E j \in Jobs :
        /\ Inserts(j) => seq + Cardinality(PendingInserts) < MaxConcRows
        /\ job' = [job EXCEPT ![p] = j]
    /\ pc' = [pc EXCEPT ![p] = "lock"]
    /\ UNCHANGED <<overflow_checks, backend, conn, table, seq, rowid, ret, returned, removed,
                   conn_lock, deVars, changeVars, countVars, rowVars>>

\* self.orm.conn.lock().await returns the guard
Acquire(p) ==
    /\ pc[p] = "lock"
    /\ lock_free(conn_lock)
    /\ conn_lock' = p
    /\ pc' = [pc EXCEPT ![p] = "locked"]
    /\ UNCHANGED <<overflow_checks, backend, conn, table, seq, rowid, ret, returned, removed,
                   job, deVars, changeVars, countVars, rowVars>>

\* with the guard: `if conn.is_none() { return Err(NoConnection) }`, else the
\* statement is handed to the connection; close takes the connection out of
\* the slot before it closes it
Begin(p) ==
    /\ pc[p] = "locked"
    /\ job[p].op # "change"
    /\ IF ~conn
       THEN /\ job' = [job EXCEPT ![p] =
                        IF @.phase = "select"
                        THEN [op |-> @.op, phase |-> "return", inserted |-> @.inserted,
                              r |-> @.r, res |-> NoConnection]
                        ELSE [op |-> @.op, phase |-> "return", res |-> NoConnection]]
            /\ pc' = [pc EXCEPT ![p] = "unlock"]
            /\ conn' = conn
       ELSE /\ pc' = [pc EXCEPT ![p] = "running"]
            /\ conn' = (job[p].op # "close")
            /\ job' = job
    /\ UNCHANGED <<overflow_checks, backend, table, seq, rowid, ret, returned, removed,
                   conn_lock, deVars, changeVars, countVars, rowVars>>

\* the outcome of the statement a caller has in progress: the database
\* afterwards and what the caller keeps. For the insert of apply the caller
\* keeps nothing yet; `inserted` notes the id the insert generated
statement(j, tbl, sq, rid, fails, checks) ==
    LET with_e(e) ==
            [table |-> e.table, seq |-> e.seq, rowid |-> e.rowid,
             job |-> IF j.op = "apply"
                     THEN [op |-> "apply", phase |-> "rowid", inserted |-> e.seq]
                     ELSE [op |-> j.op, phase |-> "return",
                           res |-> [ok |-> TRUE, val |-> e.affected]]]
        with_rows(rows) ==
            [table |-> tbl, seq |-> sq, rowid |-> rid,
             job |-> [op |-> "apply", phase |-> "return", inserted |-> j.inserted, r |-> j.r,
                      res |-> IF ~rows.ok THEN rows
                              ELSE IF Len(rows.val) = 0 THEN [ok |-> FALSE, err |-> "InsertError"]
                              ELSE [ok |-> TRUE, val |-> rows.val[1]]]]
    IN  CASE j.phase \in {"update", "insert"} -> with_e(execute(tbl, sq, rid, j.stmt))
          [] j.phase = "select" ->
                with_rows(run_many(UserT, exec(TRUE, tbl, find_one(j.r)), checks).res)
          [] j.phase \in {"close", "script"} ->
                [table |-> tbl, seq |-> sq, rowid |-> rid,
                 job |-> [op |-> j.op, phase |-> "return",
                          res |-> IF fails THEN [ok |-> FALSE, err |-> "RusqliteError"]
                                  ELSE [ok |-> TRUE, val |-> <<>>]]]
          [] j.phase = "read" ->
                [table |-> tbl, seq |-> sq, rowid |-> rid,
                 job |-> [op |-> j.op, phase |-> "return", res |-> [ok |-> TRUE, val |-> rid]]]

\* the statement in progress returns
End(p) ==
    /\ pc[p] = "running"
    /\ job[p].op # "change"
    /\ \E fails \in {f \in BOOLEAN : f => job[p].op \in {"close", "init"}} :
        \E s \in {statement(job[p], table, seq, rowid, fails, overflow_checks)} :
            /\ table' = s.table
            /\ seq' = s.seq
            /\ rowid' = s.rowid
            /\ job' = [job EXCEPT ![p] = s.job]
            /\ pc' = [pc EXCEPT ![p] = IF s.job.phase = "rowid" THEN "read" ELSE "unlock"]
    /\ UNCHANGED <<overflow_checks, backend, conn, ret, returned, removed, conn_lock,
                   deVars, changeVars, countVars, rowVars>>

\* apply, still inside the block that holds the guard:
\* `let r = conn.last_insert_rowid()`
ReadRowid(p) ==
    /\ pc[p] = "read"
    /\ job' = [job EXCEPT ![p] = [op |-> "apply", phase |-> "inserted",
                                  inserted |-> @.inserted, r |-> rowid]]
    /\ pc' = [pc EXCEPT ![p] = "unlock"]
    /\ UNCHANGED <<overflow_checks, backend, conn, table, seq, rowid, ret, returned, removed,
                   conn_lock, deVars, changeVars, countVars, rowVars>>

\* apply keeping the guard of the connection while its re-select asks for it
Release_keeping_guard(p) ==
    /\ pc[p] = "unlock"
    /\ job[p].op # "change"
    /\ conn_lock' = IF job[p].phase = "inserted" THEN conn_lock ELSE 0
    /\ IF job[p].phase = "inserted"
       THEN /\ job' = [job EXCEPT ![p] = [op |-> "apply", phase |-> "select",
                                         inserted |-> @.inserted, r |-> @.r]]
            /\ pc' = [pc EXCEPT ![p] = "lock"]
       ELSE /\ job' = [job EXCEPT ![p] = [op |-> "none"]]
            /\ pc' = [pc EXCEPT ![p] = "idle"]
    /\ UNCHANGED <<overflow_checks, backend, conn, table, seq, rowid, ret, returned, removed,
                   deVars, changeVars, countVars, rowVars>>

\* the guard goes out of scope; apply goes on to its re-select, which takes
\* the lock again, every other call returns what it holds in job[p].res
Release(p) ==
    /\ pc[p] = "unlock"
    /\ job[p].op # "change"
    /\ conn_lock' = 0
    /\ IF job[p].phase = "inserted"
       THEN /\ job' = [job EXCEPT ![p] = [op |-> "apply", phase |-> "select",
                                         inserted |-> @.inserted, r |-> @.r]]
            /\ pc' = [pc EXCEPT ![p] = "lock"]
       ELSE /\ job' = [job EXCEPT ![p] = [op |-> "none"]]
            /\ pc' = [pc EXCEPT ![p] = "idle"]
    /\ UNCHANGED <<overflow_checks, backend, conn, table, seq, rowid, ret, returned, removed,
                   deVars, changeVars, countVars, rowVars>>

ConcNext ==
    \E p \in Callers :
        \/ Call(p)
        \/ Acquire(p)
        \/ Begin(p)
        \/ End(p)
        \/ ReadRowid(p)
        \/ Release(p)

ConcSpec == Init /\ [][ConcNext]_vars

\* C13: under every interleaving of the callers of one ORM, a caller has a
\* statement in progress only while it holds the guard of the connection
\* lock, so at most one caller has a statement in progress; and the
\* connection is in the slot while a statement other than close's is in
\* progress, that is close never takes it from under a running statement.
C13_StatementsUnderTheLock ==
    /\ \A p \in Callers : pc[p] \in {"locked", "running", "read", "unlock"} => conn_lock = p
    /\ Cardinality({p \in Callers : pc[p] = "running"}) <= 1
    /\ \A p \in Callers : pc[p] = "running" /\ job[p].op # "close" => conn

C13_Witness ==
    /\ pc[1] = "running"
    /\ job[1].op = "exec"
    /\ pc[2] = "lock"
    /\ job[2].op = "close"


----------------------------------------------------------------------------
(* ORM::change called by concurrent callers of one ORM *)

\* a caller starts change() with the next update query of the sequence; its
\* first statement is the CREATE TABLE, sent through query_update().exec()
CallChange(p) ==
    /\ pc[p] = "idle"
    /\ change_calls[p] < MaxChanges
    /\ change_calls' = [change_calls EXCEPT ![p] = @ + 1]
    /\ job' = [job EXCEPT ![p] = [op |-> "change", phase |-> "create", k |-> change_calls[p] + 1]]
    /\ pc' = [pc EXCEPT ![p] = "lock"]
    /\ UNCHANGED <<overflow_checks, backend, conn, table, seq, rowid, ret, returned, removed,
                   conn_lock, count_lock, deVars, changeVars, rowVars>>

\* with the guard of the connection, inside exec(): the NoConnection check
BeginChange(p) ==
    /\ pc[p] = "locked"
    /\ job[p].op = "change"
    /\ IF ~conn
       THEN /\ job' = [job EXCEPT ![p] = change_no_connection(@)]
            /\ pc' = [pc EXCEPT ![p] = "unlock"]
       ELSE /\ pc' = [pc EXCEPT ![p] = "running"]
            /\ job' = job
    /\ UNCHANGED <<overflow_checks, backend, conn, table, seq, rowid, ret, returned, removed,
                   conn_lock, deVars, changeVars, countVars, rowVars>>

\* the statement of change returns
EndChange(p) ==
    /\ pc[p] = "running"
    /\ job[p].op = "change"
    /\ \E fails \in {f \in BOOLEAN : f => job[p].phase = "update"} :
        \E s \in {change_statement(job[p], last_change, rowid, fails)} :
            /\ last_change' = s.last_change
            /\ rowid' = s.rowid
            /\ applied' = IF s.executed THEN [applied EXCEPT ![job[p].k] = @ + 1] ELSE applied
            /\ job' = [job EXCEPT ![p] = s.job]
    /\ pc' = [pc EXCEPT ![p] = "unlock"]
    /\ UNCHANGED <<overflow_checks, backend, conn, table, seq, ret, returned, removed,
                   conn_lock, change_count, calls, countVars, deVars, rowVars>>

\* exec() returns inside change: its guard of the connection is dropped
ReleaseChange(p) ==
    /\ pc[p] = "unlock"
    /\ job[p].op = "change"
    /\ conn_lock' = 0
    /\ \E c \in {change_continue(job[p])} :
        /\ job' = [job EXCEPT ![p] = c.job]
        /\ pc' = [pc EXCEPT ![p] = c.pc]
    /\ UNCHANGED <<overflow_checks, backend, conn, table, seq, rowid, ret, returned, removed,
                   deVars, changeVars, countVars, rowVars>>

\* `let mut change_count = self.change_count.lock().await`, the increment
\* and the comparison with the `last` read before
LockCount(p) ==
    /\ pc[p] = "count"
    /\ lock_free(count_lock)
    /\ count_lock' = p
    /\ change_count' = change_count + 1
    /\ IF change_count + 1 > job[p].last
       THEN /\ job' = [job EXCEPT ![p] = [op |-> "change", phase |-> "update", k |-> @.k,
                                         count |-> change_count + 1]]
            /\ pc' = [pc EXCEPT ![p] = "lock"]
       ELSE /\ job' = [job EXCEPT ![p] = [op |-> "change", phase |-> "return", k |-> @.k,
                                         res |-> [ok |-> TRUE, val |-> <<>>]]]
            /\ pc' = [pc EXCEPT ![p] = "done"]
    /\ UNCHANGED <<overflow_checks, backend, conn, table, seq, rowid, ret, returned, removed,
                   conn_lock, last_change, calls, applied, change_calls, deVars, rowVars>>

\* a call that holds no guard of the connection returns; change drops the
\* guard of change_count, if it got that far, with the function's locals
ReturnChange(p) ==
    /\ pc[p] = "done"
    /\ count_lock' = IF count_lock = p THEN 0 ELSE count_lock
    /\ job' = [job EXCEPT ![p] = [op |-> "none"]]
    /\ pc' = [pc EXCEPT ![p] = "idle"]
    /\ UNCHANGED <<overflow_checks, backend, conn, table, seq, rowid, ret, returned, removed,
                   conn_lock, change_calls, deVars, changeVars, rowVars>>

\* a caller closes the ORM while changes are under way
CallClose(p) ==
    /\ pc[p] = "idle"
    /\ conn
    /\ job' = [job EXCEPT ![p] = [op |-> "close", phase |-> "close"]]
    /\ pc' = [pc EXCEPT ![p] = "lock"]
    /\ UNCHANGED <<overflow_checks, backend, conn, table, seq, rowid, ret, returned, removed,
                   conn_lock, deVars, changeVars, countVars, rowVars>>

ChangeNext ==
    \E p \in Callers :
        \/ CallChange(p)
        \/ CallClose(p)
        \/ Acquire(p)
        \/ BeginChange(p)
        \/ EndChange(p)
        \/ ReleaseChange(p)
        \/ LockCount(p)
        \/ ReturnChange(p)
        \/ Begin(p)
        \/ End(p)
        \/ Release(p)

ChangeSpec == Init /\ [][ChangeNext]_vars

\* C26: when concurrent callers run the same sequence of change calls, the
\* database executes each update query of the sequence at most once
C26_EachChangeExecutedOnce == \A k \in 1..MaxChanges : applied[k] <= 1

----------------------------------------------------------------------------
(* Every operation of one ORM, called concurrently, under a fair scheduler *)

\* ORM::init: an unreadable script returns StdError before any lock is
\* taken, a readable one is sent through query_update().exec()
CallInit(p) ==
    /\ pc[p] = "idle"
    /\ \E readable \in BOOLEAN :
        IF readable
        THEN /\ job' = [job EXCEPT ![p] = [op |-> "init", phase |-> "script"]]
             /\ pc' = [pc EXCEPT ![p] = "lock"]
        ELSE /\ job' = [job EXCEPT ![p] = [op |-> "init", phase |-> "return",
                                          res |-> [ok |-> FALSE, err |-> "StdError"]]]
             /\ pc' = [pc EXCEPT ![p] = "done"]
    /\ UNCHANGED <<overflow_checks, backend, conn, table, seq, rowid, ret, returned, removed,
                   conn_lock, deVars, changeVars, countVars, rowVars>>

\* ORM::last_insert_rowid: its first step is conn.lock().await
CallLastInsertRowid(p) ==
    /\ pc[p] = "idle"
    /\ job' = [job EXCEPT ![p] = [op |-> "last_insert_rowid", phase |-> "read"]]
    /\ pc' = [pc EXCEPT ![p] = "lock"]
    /\ UNCHANGED <<overflow_checks, backend, conn, table, seq, rowid, ret, returned, removed,
                   conn_lock, deVars, changeVars, countVars, rowVars>>

\* the steps a caller takes by itself between two statements
Proceed(p) ==
    \/ Begin(p)
    \/ ReadRowid(p)
    \/ Release(p)
    \/ BeginChange(p)
    \/ ReleaseChange(p)
    \/ ReturnChange(p)

\* the statement a caller has in progress returns, whatever its outcome
Returns(p) ==
    /\ pc[p] = "running"
    /\ pc' \in {[pc EXCEPT ![p] = "read"], [pc EXCEPT ![p] = "unlock"]}

\* the calls are started on an open ORM, those of the query builders on a
\* database that holds no row yet; each caller calls change once, before any change was counted
FairNext ==
    \E p \in Callers :
        \/ conn /\ seq = 0 /\ Call(p)
        \/ conn /\ change_count = 0 /\ change_calls[p] = 0 /\ CallChange(p)
        \/ conn /\ CallInit(p)
        \/ conn /\ CallLastInsertRowid(p)
        \/ Acquire(p)
        \/ LockCount(p)
        \/ Proceed(p)
        \/ End(p)
        \/ EndChange(p)

\* a caller that is not waiting for a lock goes on: the executor polls a
\* task that can make progress; and a lock that is free while callers wait
\* for it is taken by one of them: Mutex wakes a waiter when the guard is
\* dropped. Which waiter gets it is not settled.
Scheduling ==
    /\ \A p \in Callers : WF_vars(Proceed(p))
    /\ WF_vars(\E p \in Callers : Acquire(p))
    /\ WF_vars(\E p \in Callers : LockCount(p))

FairSpec == Init /\ [][FairNext]_vars /\ Scheduling

\* every statement handed to the backend returns
StatementsReturn == \A p \in Callers : WF_pc(Returns(p))

\* a lock that is fair: a waiter gets a lock that is free again and again.
\* The locks of the ORM are futures::lock::Mutex, which wakes one waiter at
\* each release and lets whoever asks first take the guard, so the program
\* does not provide this; it is what C28 assumes.
LockIsFair ==
    \A p \in Callers :
        /\ SF_vars(Acquire(p))
        /\ SF_vars(LockCount(p))

\* C28: under every interleaving of concurrent exec, run, apply,
\* last_insert_rowid, init, change and close calls on one ORM, when every
\* statement returns and the locks are fair, every call that was started
\* returns: no caller stays inside a call for ever
C28_EveryCallReturns ==
    (StatementsReturn /\ LockIsFair) => \A p \in Callers : []<>(pc[p] = "idle")

\* C28, the lock order: a caller waits for the change-counter lock only
\* while it holds no guard of the connection, and apply holds no guard of the
\* connection when its re-select asks for one
C28_LockOrder ==
    \A p \in Callers :
        /\ pc[p] = "count" => conn_lock # p
        /\ pc[p] = "lock" => conn_lock # p

\* change holds the change-counter lock and waits for the connection lock,
\* which the insert of an apply holds
C28_Witness ==
    \E p, q \in Callers :
        /\ p # q
        /\ count_lock = p
        /\ pc[p] = "lock"
        /\ conn_lock = q
        /\ job[q].op = "apply"

----------------------------------------------------------------------------
(* The cursor *)

IsSuffix(s, t) == Len(s) <= Len(t) /\ SubSeq(t, Len(t) - Len(s) + 1, Len(t)) = s

Suffixes(t) == {SubSeq(t, i, Len(t)) : i \in 1..(Len(t) + 1)}

\* C14: the cursor a decode call leaves behind is a suffix of the input it
\* was given, and from every cursor the decode can stand at (every suffix of
\* the input) each parsing function leaves a suffix of that cursor, equal or
\* strictly shorter, whether it succeeds or fails.
C14_CursorOnlyShrinks ==
    call.op # "none" =>
        /\ IsSuffix(de.input, call.src)
        /\ \A s \in Suffixes(call.src) :
            /\ IsSuffix(peek_char(s).input, s)
            /\ IsSuffix(next_char(s).input, s)
            /\ IsSuffix(parse_bool(s).input, s)
            /\ IsSuffix(parse_string(s).input, s)
            /\ \A w \in Widths :
                /\ IsSuffix(parse_unsigned(s, w, overflow_checks).input, s)
                /\ IsSuffix(parse_signed(s, w, overflow_checks).input, s)

C14_Witness ==
    /\ call.op # "none"
    /\ ~de.ok
    /\ de.err # Panic
    /\ 0 < Len(de.input)
    /\ Len(de.input) < Len(call.src)


----------------------------------------------------------------------------
(* Replaying a sequence of changes *)

RECURSIVE SumTo(_, _)
SumTo(f, n) == IF n = 0 THEN 0 ELSE f[n] + SumTo(f, n - 1)

\* the number of changes the database has applied
Applied == SumTo(applied, MaxChanges)

\* C15: when the sequence change(q[1]), change(q[2]), ... is replayed on a
\* fresh ORM connected to the same database, no update query is executed a
\* second time; a change call skips its update query only when an earlier
\* call has executed it, so that across all runs every q[k] is executed
\* exactly once; and right after a change that executed its update query
\* the stored `last` equals the number of changes applied.
C15_EachChangeAppliedOnce ==
    /\ \A k \in 1..MaxChanges : applied[k] <= 1
    /\ ret.op = "change" /\ ret.res.ok /\ ~ret.executed => applied[ret.k] = 1
    /\ ret.op = "change" /\ ret.executed => last_change.rows = <<Applied>>


----------------------------------------------------------------------------
(* Decode failures of the find-by-id run *)

\* C16: when find_one(id).run() has retrieved rows and the text rebuilt from
\* them does not decode, the call returns Err(ORMError::Unknown): the
\* failure is an error value, not a panic.
C16_DecodeFailureIsUnknown ==
    ret.op = "find_one" /\ ret.decoded = 1 /\ ~ret.res.ok
        => ret.res = [ok |-> FALSE, err |-> "Unknown"]


----------------------------------------------------------------------------
(* A Row under set and get *)

\* the texts set stores: decimal integers, one of them the first beyond
\* i32, and texts that are no integer
RowTexts ==
    {<<"7">>, <<"-", "7">>, <<"a">>, <<>>,
     <<"2", "1", "4", "7", "4", "8", "3", "6", "4", "8">>}

\* the values set is called with
RowValues == {None} \cup {Some(t) : t \in RowTexts}

IsDigits(t) == t # <<>> /\ \A i \in DOMAIN t : t[i] \in Range(Digits)

RECURSIVE FoldDigits(_, _, _)
\* the digits of t accumulated from the left, added for a positive number
\* and subtracted for a negative one; a step that leaves the range of i32
\* ends the parse with an error, decided before the step is computed
FoldDigits(acc, t, neg) ==
    IF t = <<>> THEN Some(acc)
    ELSE LET with_d(d) ==
                 IF ~neg
                 THEN IF acc > 214748364 \/ (acc = 214748364 /\ d > 7) THEN None
                      ELSE FoldDigits(acc * 10 + d, Tail(t), neg)
                 ELSE IF acc < -214748364 \/ (acc = -214748364 /\ d > 8) THEN None
                      ELSE FoldDigits(acc * 10 - d, Tail(t), neg)
         IN  with_d(IndexOf(Digits, Head(t)) - 1)

\* <i32 as FromStr>::from_str: an optional sign, then decimal digits; a
\* number outside i32 is an error
i32_from_str(t) ==
    IF IsDigits(t) THEN FoldDigits(0, t, FALSE)
    ELSE IF t # <<>> /\ t[1] = "-" /\ IsDigits(Tail(t)) THEN FoldDigits(0, Tail(t), TRUE)
    ELSE IF t # <<>> /\ t[1] = "+" /\ IsDigits(Tail(t)) THEN FoldDigits(0, Tail(t), FALSE)
    ELSE None

\* Z::from_str for the two target types of get: String never fails
from_str_as(z, t) == IF z = "String" THEN Some(t) ELSE i32_from_str(t)

\* a variant of get that answers Z's default when the text does not parse
Row_get_as_or_default(r, index, z) ==
    IF index \notin DOMAIN r THEN None
    ELSE IF ~r[index].some THEN None
    ELSE IF from_str_as(z, r[index].v).some THEN from_str_as(z, r[index].v)
    ELSE Some(0)

\* Row::get::<Z>(index)
Row_get_as(r, index, z) ==
    IF index \notin DOMAIN r THEN None
    ELSE IF ~r[index].some THEN None
    ELSE from_str_as(z, r[index].v)

\* row.set(index, value)
Set ==
    \E index \in Indexes, value \in RowValues :
        /\ row_columns' = Row_set(row_columns, index, value)
        /\ stored' = [stored EXCEPT ![index] = value]
        /\ UNCHANGED <<overflow_checks, backend, got, deVars, ormVars>>

\* row.get::<Z>(index)
Get ==
    \E index \in Indexes, z \in {"String", "i32"} :
        /\ got' = [index |-> index, z |-> z, res |-> Row_get_as(row_columns, index, z)]
        /\ UNCHANGED <<overflow_checks, backend, row_columns, stored, deVars, ormVars>>

RowNext ==
    \/ Set
    \/ Get

RowSpec == Init /\ [][RowNext]_vars

RECURSIVE DigitsAtMost(_, _)
\* digit runs of one length compared as numbers, digit by digit
DigitsAtMost(ds, limit) ==
    IF ds = <<>> THEN TRUE
    ELSE IF Head(ds) # Head(limit)
    THEN IndexOf(Digits, Head(ds)) < IndexOf(Digits, Head(limit))
    ELSE DigitsAtMost(Tail(ds), Tail(limit))

RECURSIVE SignificantDigits(_)
\* a digit run without its leading zeros
SignificantDigits(ds) ==
    IF ds # <<>> /\ Head(ds) = "0" THEN SignificantDigits(Tail(ds)) ELSE ds

\* the number of a digit run is at most that of the ten-digit run `limit`
WithinLimit(ds, limit) ==
    \/ Len(SignificantDigits(ds)) < Len(limit)
    \/ Len(SignificantDigits(ds)) = Len(limit) /\ DigitsAtMost(SignificantDigits(ds), limit)

\* what the claim expects of get::<Z>(index), from the value most recently
\* passed to set at that index: a text parses as i32 when it is a decimal
\* integer, with a minus sign or none, of a value within i32
ExpectedGet(st, z) ==
    IF st = NeverSet THEN None
    ELSE IF ~st.some THEN None
    ELSE IF z = "String" THEN Some(st.v)
    ELSE IF IsDigits(st.v) /\ WithinLimit(st.v, <<"2", "1", "4", "7", "4", "8", "3", "6", "4", "7">>)
    THEN Some(DecimalValue(st.v))
    ELSE IF st.v # <<>> /\ st.v[1] = "-" /\ IsDigits(Tail(st.v))
            /\ WithinLimit(Tail(st.v), <<"2", "1", "4", "7", "4", "8", "3", "6", "4", "8">>)
    THEN Some(0 - DecimalValue(Tail(st.v)))
    ELSE None

\* C17: after any sequence of set calls, get::<Z>(i) is Some(z) exactly when
\* the most recent set at index i stored Some(v) and v parses as Z, with z
\* the parsed value, and None when index i was never set, was last set to
\* None or holds a text that does not parse; since the value got at an index
\* depends on the last set at that index only, set(i, _) leaves every other
\* index as it was.
C17_GetReturnsLastSet ==
    \A i \in Indexes, z \in {"String", "i32"} :
        Row_get_as(row_columns, i, z) = ExpectedGet(stored[i], z)

C17_Witness ==
    /\ got = [index |-> 1, z |-> "i32", res |-> Some(0 - 7)]
    /\ stored[0] = Some(<<"a">>)
    /\ stored[1] = Some(<<"-", "7">>)


----------------------------------------------------------------------------
(* Self-describing dispatch *)

RECURSIVE DigitPrefix(_)
\* the leading run of decimal digits of a text
DigitPrefix(t) ==
    IF t # <<>> /\ Head(t) \in Range(Digits) THEN <<Head(t)>> \o DigitPrefix(Tail(t)) ELSE <<>>

\* what C18 says of every leading character but a digit and '-'
DispatchOf(src, r, checks) ==
    CASE Head(src) = "n" -> r = deserialize_unit(src)
      [] Head(src) \in {"t", "f"} -> r = parse_bool(src)
      [] Head(src) = Q -> r = parse_string(src)
      [] Head(src) = "[" -> r = deserialize_seq(TSeq(TIgnored), src, checks)
      [] Head(src) = "{" -> r = deserialize_map(TIgnored, src, checks)
      [] OTHER -> r = R_Err("Syntax", src)

\* C18 as stated: deserialize_any decodes by the first character of the
\* cursor ('n' unit, 't'/'f' boolean, '"' string, '[' sequence, '{' map,
\* anything else Syntax), and input that begins with a digit or with '-' is
\* decoded as the integer it spells.
C18_DigitsDecodeAsInteger ==
    call.op = "deserialize_any" /\ call.src # <<>> =>
        IF Head(call.src) \in Range(Digits)
        THEN /\ de.ok
             /\ de.val = DecimalValue(DigitPrefix(call.src))
        ELSE IF Head(call.src) = "-"
        THEN /\ de.ok
             /\ de.val = 0 - DecimalValue(DigitPrefix(Tail(call.src)))
        ELSE DispatchOf(call.src, de, overflow_checks)

\* C18, amended: the dispatch is as stated, but the unsigned and the signed
\* 64-bit decode that a leading digit and a leading '-' are dispatched to
\* both demand an opening quote, so on such input deserialize_any consumes
\* the first character and fails with ExpectedString.
C18_DigitsFailWithExpectedString ==
    call.op = "deserialize_any" /\ call.src # <<>> =>
        IF Head(call.src) \in Range(Digits) \cup {"-"}
        THEN de = R_Err("ExpectedString", Tail(call.src))
        ELSE DispatchOf(call.src, de, overflow_checks)

C18_Witness ==
    /\ call.op = "deserialize_any"
    /\ call.src = <<"4", "2">>
    /\ de = R_Err("ExpectedString", <<"2">>)


----------------------------------------------------------------------------
(* Boolean columns *)

\* C19: the text that row reconstruction emits for a present column of a
\* boolean field, a quoted string, is accepted by the boolean decode: a
\* record with a boolean field is decoded from the row rebuilt for it, with
\* the boolean the column spells.
C19_QuotedBooleanDecodes ==
    call.op = "from_str_flag_row" /\ 1 \in DOMAIN call.row
            /\ call.row[1].v \in {<<"t", "r", "u", "e">>, <<"f", "a", "l", "s", "e">>}
        => rv = [ok |-> TRUE, val |-> <<1, call.row[1].v = <<"t", "r", "u", "e">>>>]


----------------------------------------------------------------------------
(* The find-by-id run on more than one row *)

\* C20: however many rows the select of find_one retrieves, one or more,
\* the run decodes an object built from a single row: the result is
\* Ok(Some(record)) with the record of one of the retrieved rows.
C20_OneRowIsDecoded ==
    ret.op = "find_one_keyless" /\ ret.res # NoConnection =>
        /\ ret.res.ok
        /\ ret.res.val.some
        /\ \E i \in DOMAIN ret.found : ret.res.val.v = RecordOf(ret.found[i])


----------------------------------------------------------------------------
(* Strings: where they end and what they hold *)

RECURSIVE BackslashesBefore(_, _)
\* the length of the run of backslashes that ends just before position i
BackslashesBefore(t, i) ==
    IF i > 1 /\ t[i - 1] = BS THEN 1 + BackslashesBefore(t, i - 1) ELSE 0

\* the positions of the quotes of t that are not escaped: those preceded by
\* an even number of backslashes
UnescapedQuotes(t) == {i \in DOMAIN t : t[i] = Q /\ BackslashesBefore(t, i) % 2 = 0}

\* C21: on input that has an opening quote but no unescaped closing quote,
\* the input that ends right after the opening quote included, parse_string
\* returns an error: it neither produces a string nor indexes past the end
\* of the input.
C21_UnterminatedIsAnError ==
    call.op = "parse_string_raw" /\ call.src # <<>> /\ Head(call.src) = Q
            /\ UnescapedQuotes(Tail(call.src)) = {}
        => ~de.ok /\ de.err # Panic


----------------------------------------------------------------------------
(* Input that ends too early *)

\* C22: for every wire text w that from_str decodes and every proper prefix
\* p of w, the empty one included, from_str(p) fails with Eof: it neither
\* succeeds nor fails with another error.
C22_PrefixFailsWithEof ==
    call.op = "from_str_prefix" /\ from_str(call.ty, call.w, overflow_checks).ok
        => rv = [ok |-> FALSE, err |-> "Eof"]


----------------------------------------------------------------------------
(* Signed integers over their full range *)

\* the value a parse_signed call was given to decode
SignedValue == (IF call.neg THEN -1 ELSE 1) * DecimalValue(call.ds)

\* C23: for every value of the target type, the minimum included,
\* parse_signed on the quoted decimal text of the value returns the value,
\* and no intermediate value of the accumulator leaves the range of the type
\* (a build that checks overflow does not panic).
C23_FullRangeDecodes ==
    call.op = "parse_signed" /\ -(2 ^ (call.w - 1)) <= SignedValue
            /\ SignedValue <= 2 ^ (call.w - 1) - 1
        => /\ de.ok
           /\ de.val = SignedValue
           /\ parse_signed(call.src, call.w, TRUE).ok


----------------------------------------------------------------------------
(* apply among concurrent callers *)

\* an apply whose insert has succeeded is about to return
ApplyReturns(p) ==
    /\ pc[p] = "unlock"
    /\ job[p].op = "apply"
    /\ job[p].phase = "return"
    /\ "inserted" \in DOMAIN job[p]

\* C24: if the insert of add(r).apply() has succeeded, apply returns Ok with
\* the inserted record, whatever other callers do on the same ORM between
\* the insert and the re-select; InsertError is returned only when the
\* insert produced no row.
C24_ApplyReturnsInsertedRecord ==
    \A p \in Callers :
        ApplyReturns(p) => job[p].res = [ok |-> TRUE, val |-> <<job[p].inserted, None, AgeValue>>]

\* C25: the row id that an apply uses for its re-select is the id its own
\* insert generated, never the id of another caller's insert.
C25_ReselectsOwnRow ==
    \A p \in Callers :
        job[p].op = "apply" /\ "r" \in DOMAIN job[p] => job[p].r = job[p].inserted

\* both callers are in apply: one has read its row id 1, the other, whose
\* insert came second, has read 2
C25_Witness ==
    /\ job[1].op = "apply" /\ job[1].phase = "select" /\ job[1].r = 1
    /\ job[2].op = "apply" /\ job[2].phase = "inserted" /\ job[2].r = 2


----------------------------------------------------------------------------
(* Changes that failed *)

\* C27: a change whose update query failed is never recorded as applied:
\* the stored `last` never covers a change that the database has not
\* executed, so that a replay on a fresh connection still executes it.
C27_LastCoversOnlyApplied ==
    \A i \in DOMAIN last_change.rows :
        \A k \in 1..MaxChanges : k <= last_change.rows[i] => applied[k] >= 1

----------------------------------------------------------------------------
(* Where a string ends, and what it holds *)

\* the position in t of its first quote that is not escaped
Terminator(t) == CHOOSE i \in UnescapedQuotes(t) : \A j \in UnescapedQuotes(t) : i <= j

\* C29: parse_string on an input whose first character is not a double
\* quote fails with ExpectedString (Eof when there is no first character);
\* on an input with an opening quote and an unescaped quote after it, it
\* succeeds, the string ends at the first quote preceded by an even number
\* of backslashes, escaped quotes before it do not end it, and the cursor is
\* left on what follows that quote.
C29_EndsAtFirstUnescapedQuote ==
    call.op = "parse_string_raw" =>
        /\ call.src = <<>> => ~de.ok /\ de.err = "Eof"
        /\ call.src # <<>> /\ Head(call.src) # Q => ~de.ok /\ de.err = "ExpectedString"
        /\ call.src # <<>> /\ Head(call.src) = Q /\ UnescapedQuotes(Tail(call.src)) # {} =>
              /\ de.ok
              /\ de.input = SubSeq(call.src, Terminator(Tail(call.src)) + 2, Len(call.src))

\* an escaped quote stands before the terminating quote
C29_Witness ==
    /\ call.op = "parse_string_raw"
    /\ Len(call.src) >= 4
    /\ SubSeq(call.src, 1, 4) = <<Q, BS, Q, Q>>
    /\ de.ok
    /\ de.input = SubSeq(call.src, 5, Len(call.src))

\* every occurrence of the pair <<a, b>>, leftmost first, replaced by c
RECURSIVE PairsReplaced(_, _, _, _)
PairsReplaced(t, a, b, c) ==
    IF Len(t) < 2 THEN t
    ELSE IF t[1] = a /\ t[2] = b THEN <<c>> \o PairsReplaced(Tail(Tail(t)), a, b, c)
    ELSE <<t[1]>> \o PairsReplaced(Tail(t), a, b, c)

\* the raw content of a terminated string: what stands between the opening
\* quote and the terminating quote
RawContent(src) == SubSeq(Tail(src), 1, Terminator(Tail(src)) - 1)

\* C30: the value parse_string returns is the raw content between the
\* quotes with every backslash-quote pair replaced by a quote, then every
\* pair of backslashes replaced by one backslash, and nothing else changed:
\* a backslash followed by n stays as those two characters and a line feed
\* stays a line feed.
C30_ValueIsContentUnescapedTwice ==
    call.op = "parse_string_raw" /\ call.src # <<>> /\ Head(call.src) = Q
            /\ UnescapedQuotes(Tail(call.src)) # {} =>
        /\ de.ok
        /\ de.val = PairsReplaced(PairsReplaced(RawContent(call.src), BS, Q, Q), BS, BS, BS)
        /\ (\A i \in DOMAIN RawContent(call.src) : RawContent(call.src)[i] \notin {BS, Q})
               => de.val = RawContent(call.src)

\* a backslash followed by n was decoded and is still two characters
C30_Witness ==
    /\ call.op = "parse_string_raw"
    /\ call.src = <<Q, BS, "n", Q>>
    /\ de.ok
    /\ de.val = <<BS, "n">>

\* a line feed inside the quotes was decoded and is still a line feed
C30_WitnessLineFeed ==
    /\ call.op = "parse_string_raw"
    /\ call.src = <<Q, NL, Q>>
    /\ de.ok
    /\ de.val = <<NL>>

----------------------------------------------------------------------------
(* The MySQL backend: QueryBuilder<Vec<Row>,R,ORM>::exec *)

\* what mysql_async's Row::get::<T, usize>(i) answers on a NULL column; the
\* driver is not part of the sources: it either answers None or fails to
\* convert NULL to T, which panics
NullOutcomes == {"none", "panic"}

\* row.get(i) on the values of one result row: None past the last column
mysql_row_get(values, i, on_null) ==
    IF i >= Len(values) THEN [ok |-> TRUE, val |-> None]
    ELSE IF ~values[i + 1].some
    THEN IF on_null = "panic" THEN [ok |-> FALSE] ELSE [ok |-> TRUE, val |-> None]
    ELSE [ok |-> TRUE, val |-> values[i + 1]]

\* what Row::set stores for a value read from a column: a numeric column is
\* converted to i32 and back to its decimal text, any other is kept as text
mysql_text(numeric, v) == IF numeric THEN to_string(i32_from_str(v).v) ELSE v

RECURSIVE mysql_row_loop(_, _, _, _, _)
\* the `loop` of the for_each closure: it ends past the last column and at
\* the first column whose value is None
mysql_row_loop(values, columns_type, i, r, on_null) ==
    IF i > Len(columns_type) - 1 THEN [ok |-> TRUE, row |-> r]
    ELSE LET with_res(res) ==
                 IF ~res.ok THEN [ok |-> FALSE]
                 ELSE IF ~res.val.some THEN [ok |-> TRUE, row |-> r]
                 ELSE mysql_row_loop(values, columns_type, i + 1,
                                     Row_set(r, i, Some(mysql_text(columns_type[i + 1], res.val.v))),
                                     on_null)
         IN  with_res(mysql_row_get(values, i, on_null))

RECURSIVE mysql_for_each(_, _, _, _)
\* stmt.for_each(|row| { ...; result.push(r) }): a panic in the closure
\* unwinds exec
mysql_for_each(rows, columns_type, result, on_null) ==
    IF rows = <<>> THEN [ok |-> TRUE, val |-> result]
    ELSE LET with_r(r) ==
                 IF ~r.ok THEN [ok |-> FALSE, err |-> Panic]
                 ELSE mysql_for_each(Tail(rows), columns_type, Append(result, r.row), on_null)
         IN  with_r(mysql_row_loop(Head(rows), columns_type, 0, Row_new, on_null))

\* the values a column of the given type may hold, as the server sends
\* them: NULL or one value
MysqlValues(numeric) == {None, Some(IF numeric THEN to_string(AgeValue) ELSE <<"a">>)}

RECURSIVE MysqlRowsOf(_)
\* every row of values for the column types
MysqlRowsOf(columns_type) ==
    IF columns_type = <<>> THEN {<<>>}
    ELSE {<<v>> \o t : v \in MysqlValues(Head(columns_type)), t \in MysqlRowsOf(Tail(columns_type))}

RECURSIVE SeqsOver(_, _)
\* every sequence of at most n elements of S
SeqsOver(S, n) ==
    IF n = 0 THEN {<<>>}
    ELSE LET shorter == SeqsOver(S, n - 1)
         IN  shorter \cup {Append(t, x) : x \in S, t \in {u \in shorter : Len(u) = n - 1}}

\* a result set has at least one column when it has a row
MysqlResults ==
    {[columns_type |-> c, rows |-> rs] :
        c \in SeqsOver(BOOLEAN, MaxColumns) \ {<<>>},
        rs \in {<<>>}} \cup
    UNION {{[columns_type |-> c, rows |-> rs] : rs \in SeqsOver(MysqlRowsOf(c), MaxMysqlRows)} :
              c \in SeqsOver(BOOLEAN, MaxColumns) \ {<<>>}}

\* QueryBuilder<Vec<Row>,R,ORM>::exec on MySQL; `fails` is the outcome of
\* query_iter, q the result set the server answers
mysql_exec(c, q, fails, on_null) ==
    IF ~c THEN NoConnection
    ELSE IF fails THEN [ok |-> FALSE, err |-> "MySQLError"]
    ELSE mysql_for_each(q.rows, q.columns_type, <<>>, on_null)

\* ORM::connect of the MySQL backend: a fresh ORM instance of that backend.
\* The model holds one instance: the new one takes its place when no call
\* on the old one is in progress.
MysqlConnect ==
    /\ Idle = Callers
    /\ backend' = "mysql"
    /\ conn' = TRUE
    /\ change_count' = 0
    /\ calls' = 0
    /\ rowid' = 0
    /\ ret' = [op |-> "connect"]
    /\ UNCHANGED <<overflow_checks, table, seq, returned, removed, last_change, applied, deVars, concVars, rowVars>>

\* self.orm.query(..).exec() on MySQL, not twice in a row
MysqlExec ==
    /\ backend = "mysql"
    /\ ret.op # "mysql_exec"
    /\ \E q \in MysqlResults, on_null \in NullOutcomes, fails \in BOOLEAN :
        \E r \in {mysql_exec(conn, q, fails, on_null)} :
            /\ ret' = [op |-> "mysql_exec", columns_type |-> q.columns_type, rows |-> q.rows,
                       on_null |-> on_null, fails |-> fails, conn |-> conn, res |-> r]
            /\ UNCHANGED <<overflow_checks, backend, conn, table, seq, rowid, returned, removed,
                           deVars, changeVars, concVars, rowVars>>

\* ORM::close on MySQL: the connection is taken out of the slot, then
\* disconnected; `fails` is the outcome of disconnect
MysqlClose ==
    /\ backend = "mysql"
    /\ \E fails \in BOOLEAN :
        /\ conn' = FALSE
        /\ ret' = [op |-> "mysql_close",
                   res |-> IF ~conn THEN NoConnection
                           ELSE IF fails THEN [ok |-> FALSE, err |-> "MySQLError"]
                           ELSE [ok |-> TRUE, val |-> <<>>]]
    /\ UNCHANGED <<overflow_checks, backend, table, seq, rowid, returned, removed,
                   deVars, changeVars, concVars, rowVars>>

MysqlNext == MysqlConnect \/ MysqlExec \/ MysqlClose

MysqlSpec == Init /\ [][MysqlNext]_vars

\* C32: for every row of a MySQL result and every column whose value is not
\* NULL, the Row that exec returns for that row holds the value at the
\* column's index, whatever the columns before it hold.
C32_NonNullColumnsAreStored ==
    ret.op = "mysql_exec" /\ ret.conn /\ ~ret.fails =>
        /\ ret.res.ok
        /\ Len(ret.res.val) = Len(ret.rows)
        /\ \A k \in DOMAIN ret.rows : \A i \in DOMAIN ret.rows[k] :
              ret.rows[k][i].some =>
                  Row_get(ret.res.val[k], i - 1)
                      = Some(mysql_text(ret.columns_type[i], ret.rows[k][i].v))

----------------------------------------------------------------------------
(* The calls of a MySQL ORM. The server is not part of the sources: what it *)
(* answers to a statement is an input of the call.                          *)

\* ORM::last_insert_rowid on MySQL: the check of the slot, then the constant 0
MysqlLastInsertRowid ==
    /\ backend = "mysql"
    /\ ret' = [op |-> "mysql_last_insert_rowid",
               res |-> IF ~conn THEN NoConnection ELSE [ok |-> TRUE, val |-> 0]]
    /\ UNCHANGED <<overflow_checks, backend, conn, table, seq, rowid, returned, removed,
                   deVars, changeVars, concVars, rowVars>>

\* ORM::init on MySQL: the script file is read first, then run as one update
\* query; `sent` tells whether query_iter was called, `fails` what it answered
MysqlInit ==
    /\ backend = "mysql"
    /\ \E readable \in BOOLEAN, fails \in BOOLEAN :
        ret' = [op |-> "mysql_init", readable |-> readable, sent |-> readable /\ conn,
                res |-> IF ~readable THEN [ok |-> FALSE, err |-> "StdError"]
                        ELSE IF ~conn THEN NoConnection
                        ELSE IF fails THEN [ok |-> FALSE, err |-> "MySQLError"]
                        ELSE [ok |-> TRUE, val |-> <<>>]]
    /\ UNCHANGED <<overflow_checks, backend, conn, table, seq, rowid, returned, removed,
                   deVars, changeVars, concVars, rowVars>>

\* ORM::change on MySQL: the body is todo!(), which panics before it looks
\* at anything
MysqlChange ==
    /\ backend = "mysql"
    /\ ret' = [op |-> "mysql_change", res |-> [ok |-> FALSE, err |-> Panic]]
    /\ UNCHANGED <<overflow_checks, backend, conn, table, seq, rowid, returned, removed,
                   deVars, changeVars, concVars, rowVars>>

\* QueryBuilder<usize>::exec and ::run on MySQL: the check of the slot, then
\* query_iter and the number of rows the server reports as affected
MysqlUpdate ==
    /\ backend = "mysql"
    /\ \E fails \in BOOLEAN, affected \in 0..MaxLifeRows :
        ret' = [op |-> "mysql_update", sent |-> conn,
                res |-> IF ~conn THEN NoConnection
                        ELSE IF fails THEN [ok |-> FALSE, err |-> "MySQLError"]
                        ELSE [ok |-> TRUE, val |-> affected]]
    /\ UNCHANGED <<overflow_checks, backend, conn, table, seq, rowid, returned, removed,
                   deVars, changeVars, concVars, rowVars>>

\* the column types of table `user`: id and age numeric, name text
MysqlUserColumns == <<TRUE, FALSE, TRUE>>

\* the result sets the server may answer to a select on table `user`
MysqlUserResults ==
    {[columns_type |-> MysqlUserColumns, rows |-> rs] :
        rs \in SeqsOver(MysqlRowsOf(MysqlUserColumns), MaxLifeRows)}

\* QueryBuilder<Option<T>>::run on MySQL: exec of the select under the lock,
\* then the decode of what it returned
MysqlFindOne ==
    /\ backend = "mysql"
    /\ \E q \in MysqlUserResults, on_null \in NullOutcomes, fails \in BOOLEAN :
        \E r \in {run_one(UserT, mysql_exec(conn, q, fails, on_null), overflow_checks)} :
            ret' = [op |-> "mysql_find_one", sent |-> conn, res |-> r.res]
    /\ UNCHANGED <<overflow_checks, backend, conn, table, seq, rowid, returned, removed,
                   deVars, changeVars, concVars, rowVars>>

\* add(..).apply() on MySQL is called, by the least of the idle callers,
\* and runs the block that holds the guard: the check of the slot, the
\* insert and last_insert_id. With an id the call goes on to ask for the
\* lock again.
MysqlApply ==
    /\ backend = "mysql"
    /\ \E p \in Idle, fails \in BOOLEAN, id \in {None, Some(1)} :
        /\ \A q \in Idle : p <= q
        /\ IF ~conn \/ fails \/ ~id.some
           THEN /\ ret' = [op |-> "mysql_apply", sent |-> conn,
                           res |-> IF ~conn THEN NoConnection
                                   ELSE IF fails THEN [ok |-> FALSE, err |-> "MySQLError"]
                                   ELSE [ok |-> FALSE, err |-> "InsertError"]]
                /\ UNCHANGED <<pc, job>>
           ELSE /\ ret' = [op |-> "none"]
                /\ job' = [job EXCEPT ![p] = [op |-> "mysql_apply", phase |-> "select", r |-> id.v]]
                /\ pc' = [pc EXCEPT ![p] = "lock"]
    /\ UNCHANGED <<overflow_checks, backend, conn, table, seq, rowid, returned, removed, conn_lock,
                   deVars, changeVars, countVars, rowVars>>

\* the re-select of an apply on MySQL whose insert gave an id:
\* find_many("id = {r}").run(), which takes the lock of the connection
\* again, and the first record found. Other calls may have run since the
\* guard was dropped.
MysqlApplySelect(p) ==
    /\ pc[p] = "lock"
    /\ job[p].op = "mysql_apply"
    /\ lock_free(conn_lock)
    /\ \E q \in MysqlUserResults, on_null \in NullOutcomes, fails \in BOOLEAN :
        \E rows \in {run_many(UserT, mysql_exec(conn, q, fails, on_null), overflow_checks).res} :
            ret' = [op |-> "mysql_apply", sent |-> conn,
                    res |-> IF ~rows.ok THEN rows
                            ELSE IF Len(rows.val) = 0 THEN [ok |-> FALSE, err |-> "InsertError"]
                            ELSE [ok |-> TRUE, val |-> rows.val[1]]]
    /\ job' = [job EXCEPT ![p] = [op |-> "none"]]
    /\ pc' = [pc EXCEPT ![p] = "idle"]
    /\ UNCHANGED <<overflow_checks, backend, conn, table, seq, rowid, returned, removed, conn_lock,
                   deVars, changeVars, countVars, rowVars>>

----------------------------------------------------------------------------
(* The life of an ORM instance of either backend *)

\* the calls of one ORM from connect to close and after, on the backend of
\* the instance: a call is one step for each time it takes a lock, and the
\* steps of the callers follow each other in any order
LifeNext ==
    \/ Connect
    \/ MysqlConnect
    \/ backend = "sqlite" /\ Idle # {} /\ InitScript
    \/ backend = "sqlite" /\ Change
    \/ \E p \in Callers : ChangeStatement(p)
    \/ \E p \in Callers : ChangeCount(p)
    \/ backend = "sqlite" /\ Idle # {} /\ LastInsertRowid
    \/ backend = "sqlite" /\ seq < MaxLifeRows /\ AddApply
    \/ \E p \in Callers : ApplySelect(p)
    \/ backend = "sqlite" /\ Idle # {} /\ seq < MaxLifeRows /\ RawInsert
    \/ backend = "sqlite" /\ Idle # {} /\ Remove /\ ret'.id \in 1..MaxLifeRows
    \/ backend = "sqlite" /\ Idle # {} /\ Modify /\ ret'.id \in 1..MaxLifeRows
    \/ backend = "sqlite" /\ Idle # {} /\ FindOne /\ ret'.id \in 1..MaxLifeRows
    \/ backend = "sqlite" /\ Idle # {} /\ Close
    \/ Idle # {} /\ MysqlInit
    \/ Idle # {} /\ MysqlChange
    \/ Idle # {} /\ MysqlLastInsertRowid
    \/ Idle # {} /\ MysqlUpdate
    \/ Idle # {} /\ MysqlFindOne
    \/ MysqlApply
    \/ \E p \in Callers : MysqlApplySelect(p)
    \/ Idle # {} /\ MysqlClose

LifeSpec == Init /\ [][LifeNext]_vars

----------------------------------------------------------------------------
(* The connection slot after close *)

\* the calls of a MySQL ORM that send a statement to the server when they
\* find a connection
MysqlSends == {"mysql_init", "mysql_update", "mysql_find_one", "mysql_apply"}

\* what a step leaves alone when it executes no statement: the database of
\* the SQLite ORM, and the server of the MySQL ORM
NoStatement ==
    /\ UNCHANGED <<table, seq, rowid, last_change, applied>>
    /\ ret'.op \in MysqlSends => ~ret'.sent

\* a change that read `last` before the ORM was closed returns without
\* another statement: the one call that ends on a closed ORM with a result
\* that no statement gave
ReturnsFromCount == \E p \in Callers : pc[p] = "count" /\ pc'[p] = "idle"

\* a change that its select has given the rows of ormlib_last_change
PastSelect(j) == j.op = "change" /\ j.phase \in {"insert_last", "count", "update", "set_last"}

\* no change gets past its select on a closed ORM
NoneReachesCount == \A p \in Callers : ~PastSelect(job[p]) => ~PastSelect(job'[p])

\* C12 as stated: once close() has emptied the slot of an ORM, no operation
\* on that ORM fills it again, and every later operation on it (exec, run,
\* apply, last_insert_rowid, init, change, close) returns NoConnection and
\* executes no statement. A call is later when it was made after the close:
\* of the calls in progress at the close, only a change past its select can
\* return anything else, and no call passes that select on a closed ORM.
C12_ClosedMeansNoConnection ==
    [][~conn =>
          /\ conn' => ret'.op = "connect"
          /\ ret'.op # "connect" => NoStatement /\ NoneReachesCount
          /\ ret'.op \notin {"connect", "none"} =>
                ret'.res = NoConnection \/ ReturnsFromCount]_vars

\* what a call made on a closed ORM returns: init reads its script file
\* before it looks at the connection, and change on MySQL is todo!()
ClosedAnswer(r) ==
    IF r.op \in {"init", "mysql_init"} /\ ~r.readable THEN [ok |-> FALSE, err |-> "StdError"]
    ELSE IF r.op = "mysql_change" THEN [ok |-> FALSE, err |-> Panic]
    ELSE NoConnection

\* C12, amended: as above on either backend, except that init returns
\* StdError when its script cannot be read and NoConnection when it can,
\* and that change on a MySQL ORM panics, as it does on an open one: only
\* the SQLite backend implements it.
C12_ClosedMeansNoConnectionButInitAndMysqlChange ==
    [][~conn =>
          /\ conn' => ret'.op = "connect"
          /\ ret'.op # "connect" => NoStatement /\ NoneReachesCount
          /\ ret'.op \notin {"connect", "none"} =>
                ret'.res = ClosedAnswer(ret') \/ ReturnsFromCount]_vars

\* a change made on a closed SQLite ORM has returned NoConnection
C12_Witness ==
    /\ backend = "sqlite"
    /\ ~conn
    /\ ret.op = "change"
    /\ ret.res = NoConnection
    /\ last_change.exists

----------------------------------------------------------------------------
(* A close that fails *)

\* C33: when the backend refuses to close, close returns that error and the
\* ORM still holds its connection, so that later calls do not answer
\* NoConnection and close can be called again.
C33_FailedCloseKeepsConnection ==
    ret.op = "close" /\ ~ret.res.ok /\ ret.res.err = "RusqliteError" => conn

----------------------------------------------------------------------------
(* Integers in inputs of any shape *)

\* C31: parse_signed and parse_unsigned, at any width, fail with
\* ExpectedString when the first character of the input is not a double
\* quote (with Eof when there is no first character), and with Eof when
\* there is an opening quote and no quote after it; no integer is returned
\* in either case.
C31_IntegerNeedsBothQuotes ==
    call.op = "parse_int_raw" =>
        /\ call.src = <<>> => ~de.ok /\ de.err = "Eof"
        /\ call.src # <<>> /\ Head(call.src) # Q =>
              ~de.ok /\ de.err = "ExpectedString" /\ ~rv.ok
        /\ call.src # <<>> /\ Head(call.src) = Q
                /\ (\A i \in DOMAIN Tail(call.src) : Tail(call.src)[i] # Q) =>
              ~de.ok /\ de.err = "Eof" /\ ~rv.ok

\* digits follow an opening quote, no closing quote does, and the unsigned
\* parser returned Eof
C31_Witness ==
    /\ call.op = "parse_int_raw"
    /\ ~call.signed
    /\ call.src = <<Q, "7">>
    /\ ~de.ok
    /\ de.err = "Eof"

----------------------------------------------------------------------------
(* Enum variants in object form *)

\* the object form's opening: the brace, the quoted variant name, the colon
ObjectFormOf(name) == <<"{", Q>> \o name \o <<Q, ":">>

\* C34: a mismatch between the variant's kind and the input's shape is a
\* fatal decode error. The object form {"A":payload} naming the unit variant
\* A fails with ExpectedString whatever the payload is, and no value is
\* returned; the object form naming the payload-carrying variant B, once its
\* payload is decoded, succeeds only when the closing brace follows: any
\* other character is ExpectedMapEnd, and input that ends there is Eof.
C34_MismatchedVariantIsFatal ==
    call.op = "from_str_enum" =>
        /\ starts_with(call.src, ObjectFormOf(<<"A">>)) =>
              ~de.ok /\ de.err = "ExpectedString" /\ ~rv.ok /\ rv.err = "ExpectedString"
        /\ starts_with(call.src, ObjectFormOf(<<"B">>)) =>
              LET with_payload(payload) ==
                      payload.ok =>
                          IF payload.input = <<>>
                          THEN ~de.ok /\ de.err = "Eof" /\ ~rv.ok
                          ELSE IF Head(payload.input) = "}"
                          THEN de.ok /\ de.input = Tail(payload.input)
                          ELSE ~de.ok /\ de.err = "ExpectedMapEnd" /\ ~rv.ok
              IN  with_payload(parse_unsigned(SliceFrom(call.src, 5), 8, overflow_checks))

\* a unit variant was requested in object form with a well-formed payload
C34_Witness ==
    /\ call.op = "from_str_enum"
    /\ call.src = ObjectFormOf(<<"A">>) \o <<Q, "1", Q, "}">>
    /\ ~rv.ok

\* a payload was decoded and something other than the closing brace follows
C34_WitnessNoBrace ==
    /\ call.op = "from_str_enum"
    /\ call.src = ObjectFormOf(<<"B">>) \o <<Q, "1", Q, "x">>
    /\ ~de.ok /\ de.err = "ExpectedMapEnd"

----------------------------------------------------------------------------
(* Booleans *)

TrueText == <<"t", "r", "u", "e">>
FalseText == <<"f", "a", "l", "s", "e">>

\* C35: boolean decode succeeds exactly when the cursor starts with the
\* literal text true or false, in lower case and with nothing before it,
\* and it consumes exactly those 4 or 5 characters; on any other input it
\* fails with ExpectedBoolean and the cursor is where it was.
C35_BooleanLiteralOnly ==
    call.op = "parse_bool_raw" =>
        /\ de.ok <=> (starts_with(call.src, TrueText) \/ starts_with(call.src, FalseText))
        /\ starts_with(call.src, TrueText) =>
              de.val = TRUE /\ TrueText \o de.input = call.src
        /\ starts_with(call.src, FalseText) =>
              de.val = FALSE /\ FalseText \o de.input = call.src
        /\ ~de.ok => de.err = "ExpectedBoolean" /\ de.input = call.src

\* the literal false was decoded with more input after it
C35_Witness ==
    /\ call.op = "parse_bool_raw"
    /\ call.src = FalseText \o <<",">>
    /\ de.ok /\ de.val = FALSE /\ de.input = <<",">>

\* an input in another capitalisation was refused
C35_WitnessRefused ==
    /\ call.op = "parse_bool_raw"
    /\ call.src = <<"T", "r", "u", "e">>
    /\ ~de.ok

----------------------------------------------------------------------------
(* Sequences *)

RECURSIVE ElementsFrom(_, _)
\* how many elements, each but the first behind one comma, a run of pieces
\* has from position i on
ElementsFrom(toks, i) ==
    IF i <= Len(toks) /\ toks[i] \in SeqElements
    THEN IF i + 2 <= Len(toks) /\ toks[i + 1] = COMMA /\ toks[i + 2] \in SeqElements
         THEN 1 + ElementsFrom(toks, i + 2)
         ELSE 1
    ELSE 0

\* where the piece after n such elements is: the elements are at 2, 4, ..
EndOfElements(n) == IF n = 0 THEN 2 ELSE 2 * n + 1

\* the number an element stands for
ElementValue(tok) == IF tok = <<Q, "1", Q>> THEN 1 ELSE 2

\* C36: sequence decode requires a leading '[' (another character there is
\* ExpectedArray, no character is Eof); [] is zero elements and needs no
\* comma; every element except the first needs exactly one ',' before it
\* (an element that follows an element directly is ExpectedArrayComma); the
\* decode stops at the ']' it peeks and consumes it; n well-formed elements
\* yield exactly n elements in input order, and nothing else succeeds.
C36_SequenceDecode ==
    call.op = "deserialize_seq" =>
        LET toks == call.toks
            with_n(n, end) ==
                /\ toks # <<>> /\ toks[1] # LB => ~de.ok /\ de.err = "ExpectedArray"
                /\ toks = <<>> => ~de.ok /\ de.err = "Eof"
                /\ toks # <<>> /\ toks[1] = LB =>
                      /\ de.ok <=> (end <= Len(toks) /\ toks[end] = RB)
                      /\ de.ok =>
                            /\ de.val = [i \in 1..n |-> ElementValue(toks[2 * i])]
                            /\ de.input = TokensText(SubSeq(toks, end + 1, Len(toks)))
                      /\ n >= 1 /\ end <= Len(toks) /\ toks[end] \in SeqElements \cup {LB} =>
                            ~de.ok /\ de.err = "ExpectedArrayComma"
        IN  with_n(ElementsFrom(toks, 2), EndOfElements(ElementsFrom(toks, 2)))

\* two well-formed elements were decoded
C36_Witness ==
    /\ call.op = "deserialize_seq"
    /\ call.toks = <<LB, <<Q, "2", Q>>, COMMA, <<Q, "1", Q>>, RB>>
    /\ de.ok /\ de.val = <<2, 1>> /\ de.input = <<>>

\* an element followed an element without a comma
C36_WitnessNoComma ==
    /\ call.op = "deserialize_seq"
    /\ call.toks = <<LB, <<Q, "1", Q>>, <<Q, "2", Q>>, RB>>
    /\ ~de.ok /\ de.err = "ExpectedArrayComma"

\* the empty sequence was decoded
C36_WitnessEmpty ==
    /\ call.op = "deserialize_seq"
    /\ call.toks = <<LB, RB>>
    /\ de.ok /\ de.val = <<>>

----------------------------------------------------------------------------
(* Optional values *)

\* C37: when the cursor starts with the literal null, option decode consumes
\* exactly those four characters and yields absent; otherwise it consumes
\* nothing itself: a value is the inner type's value, an error the inner
\* type's error, and the cursor is where the inner type's decode of the same
\* input leaves it.
C37_OptionIsNullOrInner ==
    call.op = "deserialize_option" =>
        IF starts_with(call.src, NULL)
        THEN de.ok /\ de.val = None /\ NULL \o de.input = call.src
        ELSE LET with_inner(inner) ==
                     /\ de.ok = inner.ok
                     /\ de.input = inner.input
                     /\ inner.ok => de.val = Some(inner.val)
                     /\ ~inner.ok => de.err = inner.err
             IN  with_inner(deserialize(call.ty, call.src, overflow_checks))

\* null was decoded as absent with more input after it
C37_Witness ==
    /\ call.op = "deserialize_option"
    /\ call.src = NULL \o <<",">>
    /\ de.ok /\ de.val = None /\ de.input = <<",">>

\* a text was decoded as present
C37_WitnessPresent ==
    /\ call.op = "deserialize_option"
    /\ call.ty = TString
    /\ call.src = <<Q, "a", Q, "}">>
    /\ de.ok /\ de.val = Some(<<"a">>) /\ de.input = <<"}">>

----------------------------------------------------------------------------
(* Degenerate digit runs *)

\* the input of a call with the digit run's leading zero taken out
WithoutLeadingZero ==
    <<Q>> \o (IF call.op = "parse_signed" /\ call.neg THEN <<"-">> ELSE <<>>)
          \o Tail(call.ds) \o <<Q>> \o call.rest

\* C38: integer decode accepts degenerate digit runs without error. The
\* empty quoted string decodes to 0, a lone sign decodes to 0 for a signed
\* type, and leading zeros are ignored: a digit run decodes to what it
\* decodes to without its leading zero, "007" to 7. In each case the input
\* is consumed through the closing quote.
C38_DegenerateDigitRuns ==
    /\ call.op = "parse_int_raw" /\ starts_with(call.src, <<Q, Q>>) =>
          de.ok /\ de.val = 0 /\ <<Q, Q>> \o de.input = call.src
    /\ call.op = "parse_int_raw" /\ call.signed /\ starts_with(call.src, <<Q, "-", Q>>) =>
          de.ok /\ de.val = 0 /\ <<Q, "-", Q>> \o de.input = call.src
    /\ call.op = "parse_int_raw" /\ starts_with(call.src, <<Q, "0", "7", Q>>) =>
          de.ok /\ de.val = 7 /\ <<Q, "0", "7", Q>> \o de.input = call.src
    /\ call.op \in {"parse_unsigned", "parse_signed"} /\ call.ds = <<"0", "0", "7">> =>
          /\ de.ok
          /\ de.val = IF call.op = "parse_signed" /\ call.neg THEN -7 ELSE 7
          /\ de.input = call.rest
    /\ call.op = "parse_unsigned" /\ Len(call.ds) > 1 /\ Head(call.ds) = "0" =>
          de = parse_unsigned(WithoutLeadingZero, call.w, overflow_checks)
    /\ call.op = "parse_signed" /\ Len(call.ds) > 1 /\ Head(call.ds) = "0" =>
          de = parse_signed(WithoutLeadingZero, call.w, overflow_checks)

\* "007" was decoded as an 8-bit unsigned integer with more input after it
C38_Witness ==
    /\ call.op = "parse_unsigned"
    /\ call.w = 8
    /\ call.ds = <<"0", "0", "7">>
    /\ call.rest = <<",">>
    /\ de.ok /\ de.val = 7 /\ de.input = <<",">>

\* a lone sign was decoded as a signed integer
C38_WitnessLoneSign ==
    /\ call.op = "parse_int_raw"
    /\ call.signed
    /\ call.src = <<Q, "-", Q>>
    /\ de.ok /\ de.val = 0 /\ de.input = <<>>

\* the empty quoted string was decoded
C38_WitnessEmpty ==
    /\ call.op = "parse_int_raw"
    /\ call.src = <<Q, Q, "7">>
    /\ de.ok /\ de.val = 0 /\ de.input = <<"7">>
====
